---- MODULE Spec2Model ----
(***************************************************************************)
(* A model of the diff parsing and filtering engine of pr-pilot            *)
(* (agent/lib/diff-parser.js).                                             *)
(*                                                                         *)
(* Text is modelled lexically.  A line of a diff is a sequence of tokens   *)
(* (the markers the parser tests for, "diff --git", "@@", "+", ..., and    *)
(* the texts between them); a path or a glob pattern of the filter is a    *)
(* sequence of characters.  startsWith, includes, replace and the regular  *)
(* expressions of the source are computed on these sequences.              *)
(***************************************************************************)
EXTENDS Integers, Sequences, FiniteSets, TLC

VARIABLES
    diffContent,    \* parseDiff: the argument
    lines,          \* parseDiff: diffContent.split('\n')
    i,              \* parseDiff: the loop index (0-based, as in the source)
    fileDiffs,      \* parseDiff: the output array being built
    currentFile,    \* parseDiff: the FileDiff being built, or NULL
    currentHunk,    \* parseDiff: the hunk being built, or NULL
    inHunk,         \* parseDiff: the inHunk flag
    pc,             \* parseDiff: "start", "loop", "done" (returned), "threw", or "idle"
    result,         \* parseDiff: the returned array (when pc = "done")
    error,          \* parseDiff: the thrown error (when pc = "threw")
    filePath,       \* matchesPattern: the path argument
    pattern,        \* matchesPattern: the pattern argument
    matched,        \* matchesPattern: the returned boolean
    mpc,            \* matchesPattern: "call", "done" ("idle" in the other specifications)
    excludePatterns,\* filterFiles: the pattern list argument (or NULL / UNDEFINED)
    inFiles,        \* filterFiles: the fileDiffs argument
    filtered,       \* filterFiles: the returned array
    fpc,            \* filterFiles: "call", "done" ("idle" in the other specifications)
    maxFiles,       \* limitFiles: the maxFiles argument (the array argument is inFiles)
    limited,        \* limitFiles: the returned array
    lpc,            \* limitFiles: "call", "done", or "idle"
    heap,           \* the arrays of hunk lines, by reference: heap[a] is the array at a
    ctxFile,        \* extractHunksWithContext: the fileDiff argument
    contextLines,   \* extractHunksWithContext: the contextLines argument
    views,          \* extractHunksWithContext: the returned array
    cpc,            \* extractHunksWithContext: "call", "done", "changed", or "idle"
    chHunk,         \* extractChangedLines: the hunk argument
    changedLines,   \* extractChangedLines: the returned array
    chpc,           \* extractChangedLines: "call", "done", or "idle"
    vContent,       \* validateDiff: the argument
    validation,     \* validateDiff: the returned object (or the error thrown)
    vpc,            \* validateDiff: "call", "done", "threw", or "idle"
    hdrLine,        \* parseHunkHeader: the hunkLine argument
    hdrLineNumber,  \* parseHunkHeader: the lineNumber argument
    hdr,            \* parseHunkHeader: the returned hunk (or the error thrown)
    hpc,            \* parseHunkHeader: "call", "done", "threw", or "idle"
    statFiles,      \* getDiffStats: the fileDiffs argument
    stats,          \* getDiffStats: the returned object
    spc,            \* getDiffStats: "call", "done", or "idle"
    config,         \* PRReviewer: this.config (NULL in the other specifications)
    processed,      \* processDiff: the returned array
    perror,         \* processDiff: the error thrown
    ppc,            \* processDiff: "parse", "done", "threw", or "idle"
    options,        \* PRReviewer: this.options
    promptChars,    \* estimateReviewCost: the lengths of the two prompts
    costEstimate,   \* reviewPullRequest: the value of estimateReviewCost
    aiReviews,      \* the calls of getAIReview so far
    commentCalls,   \* the calls of postComments so far
    marked,         \* the metrics collector's mark: "success", "truncated", "error", or ""
    reviewResult,   \* reviewPullRequest: the returned object
    reviewError,    \* reviewPullRequest: the error thrown
    rpc,            \* reviewPullRequest: "call", "info", "diff", "process", "estimated",
                    \* "done" (returned), "threw", or "idle"
    runResult,      \* run: the returned object
    runError,       \* run: the error thrown
    runpc           \* run: "call", "review", "done" (returned), "threw", or "idle"

parseVars == <<diffContent, lines, i, fileDiffs, currentFile, currentHunk,
               inHunk, pc, result, error>>
matchVars == <<filePath, pattern, matched, mpc>>
filterVars == <<excludePatterns, inFiles, filtered, fpc>>
limitVars == <<maxFiles, limited, lpc>>
contextVars == <<heap, ctxFile, contextLines, views, cpc>>
changedVars == <<chHunk, changedLines, chpc>>
validateVars == <<vContent, validation, vpc>>
headerVars == <<hdrLine, hdrLineNumber, hdr, hpc>>
statsVars == <<statFiles, stats, spc>>
processVars == <<config, processed, perror, ppc>>
reviewVars == <<options, promptChars, costEstimate, aiReviews, commentCalls, marked,
                reviewResult, reviewError, rpc, runResult, runError, runpc>>
utilVars == <<limitVars, contextVars, changedVars, validateVars, headerVars, statsVars,
              processVars, reviewVars>>
vars == <<parseVars, matchVars, filterVars, utilVars>>

(***************************************************************************)
(* Bounds of the model.                                                    *)
(***************************************************************************)
MaxLines == 4       \* lines of an input text
MaxPathLen == 3     \* characters of a path given to matchesPattern
MaxPatLen == 3      \* characters of a pattern given to matchesPattern
MaxFiles == 2       \* files given to filterFiles
MaxPatterns == 2    \* patterns given to filterFiles
MaxLimit == 3       \* the largest maxFiles given to limitFiles
MaxHunkLines == 3   \* lines of a hunk given to extractHunksWithContext / extractChangedLines
MaxBudget == 2      \* the largest contextLines given to extractHunksWithContext
MaxStatFiles == 3   \* files given to getDiffStats
MaxBodyLines == 5   \* lines of a text of SpecHunkBody
MaxHeaderLines == 4 \* lines of a text of SpecFileHeader
MaxSummaryLines == 5 \* lines of a text of SpecSummary
MaxPrecheckLines == 4 \* lines of a text of SpecPrecheck
MaxProcessLines == 3 \* lines of a text of SpecProcess
MaxProcessLimit == 2 \* the largest max_files of SpecProcess
MaxReviewLines == 3 \* lines of a pull request diff of SpecReview

(***************************************************************************)
(* JavaScript values.                                                      *)
(***************************************************************************)
NULL == [null |-> TRUE]
UNDEFINED == [undefined |-> TRUE]

\* The sequences over S of length 1..n.
RECURSIVE SeqsUpTo(_, _)
SeqsUpTo(S, n) ==
    IF n = 0 THEN {<<>>}
    ELSE LET shorter == SeqsUpTo(S, n - 1)
         IN  shorter \cup {Append(s, c) : s \in {t \in shorter : Len(t) = n - 1}, c \in S}

(***************************************************************************)
(* String primitives on token / character sequences.                       *)
(***************************************************************************)
\* String.prototype.startsWith
StartsWith(s, prefix) ==
    Len(prefix) <= Len(s) /\ SubSeq(s, 1, Len(prefix)) = prefix

\* s has sub at position k (1-based)
HasAt(s, sub, k) ==
    k + Len(sub) - 1 <= Len(s) /\ SubSeq(s, k, k + Len(sub) - 1) = sub

\* String.prototype.includes
Includes(s, sub) == \E k \in 1..(Len(s) + 1) : HasAt(s, sub, k)

\* String.prototype.replace(from, to) with a string `from`: the first occurrence
ReplaceFirst(s, from, to) ==
    IF Includes(s, from)
    THEN LET k == CHOOSE k \in 1..(Len(s) + 1) :
                    HasAt(s, from, k) /\ \A j \in 1..(k - 1) : ~HasAt(s, from, j)
         IN  SubSeq(s, 1, k - 1) \o to \o SubSeq(s, k + Len(from), Len(s))
    ELSE s

\* String.prototype.replace(/from/g, to) for a literal `from`: every occurrence,
\* leftmost first, not overlapping
RECURSIVE ReplaceAll(_, _, _)
ReplaceAll(s, from, to) ==
    IF s = <<>> THEN <<>>
    ELSE IF StartsWith(s, from)
         THEN to \o ReplaceAll(SubSeq(s, Len(from) + 1, Len(s)), from, to)
         ELSE <<Head(s)>> \o ReplaceAll(Tail(s), from, to)

\* String.prototype.trim: whitespace tokens at both ends removed
\* the white space tokens: the space, the tab and the line terminator
Whitespace == {" ", "\t", "\n"}
RECURSIVE TrimStart(_)
TrimStart(s) == IF s # <<>> /\ Head(s) \in Whitespace THEN TrimStart(Tail(s)) ELSE s
RECURSIVE TrimEnd(_)
TrimEnd(s) ==
    IF s # <<>> /\ s[Len(s)] \in Whitespace THEN TrimEnd(SubSeq(s, 1, Len(s) - 1)) ELSE s
Trim(s) == TrimEnd(TrimStart(s))

(***************************************************************************)
(* The lines of the modelled input texts.                                  *)
(***************************************************************************)
DiffX == <<"diff --git", " a/", "x", " b/", "x">>
\* the file "x b/y" (a directory "x b"): diff --git a/x b/y b/x b/y
DiffXbY == <<"diff --git", " a/", "x", " b/", "y", " b/", "x", " b/", "y">>
IndexLine == <<"index ", "1234567..abcdefg 100644">>
BinaryLine == <<"Binary files", " a/x and b/x differ">>
NewModeLine == <<"new file", " mode", " 100644">>
RenameToLine == <<"rename to", " ", "y">>
HunkLine == <<"@@", " -", "1", ",", "2", " +", "1", ",", "3", " @@", " ", "ctx">>
BadHunkLine == <<"@@", " bad">>
AddLine == <<"+", "a">>
DelLine == <<"-", "a">>
PlusPlusPlusLine == <<"+", "+", "+", " b/x">>

\* The lines the input texts are made of: one line for each branch of the
\* parser's loop, two 'diff --git' lines, a malformed '@@' line, and for the
\* hunk body an addition and a line that is neither addition nor deletion.
DiffLines ==
    {DiffX, DiffXbY, IndexLine, BinaryLine, NewModeLine, RenameToLine,
     HunkLine, BadHunkLine, AddLine, PlusPlusPlusLine}

\* The values parseDiff is called with: null, undefined, a number, and the
\* strings of 1..MaxLines lines ('' is the string whose only line is empty).
StringOf(ls) == [type |-> "string", lines |-> ls]
EmptyString == StringOf(<< <<>> >>)
DiffInputs ==
    {NULL, UNDEFINED, [type |-> "number", value |-> 0], [type |-> "number", value |-> 42],
     EmptyString}
    \cup {StringOf(ls) : ls \in SeqsUpTo(DiffLines, MaxLines) \ {<<>>}}

\* !diffContent || typeof diffContent !== 'string'
Falsy(v) ==
    \/ v = NULL
    \/ v = UNDEFINED
    \/ v = EmptyString
    \/ ("type" \in DOMAIN v /\ v.type = "number" /\ v.value = 0)
IsString(v) == "type" \in DOMAIN v /\ v.type = "string"

(***************************************************************************)
(* createNewFileDiff                                                       *)
(***************************************************************************)
\* diffLine.match(/diff --git a\/(.+) b\/(.+)/): the leftmost start, the first
\* group greedy.  NULL when there is no match.
DiffGitMatch(diffLine) ==
    LET n == Len(diffLine)
        Fits(s, k) ==
            /\ HasAt(diffLine, <<"diff --git", " a/">>, s)
            /\ s + 2 < k /\ k < n
            /\ diffLine[k] = " b/"
        starts == {s \in 1..n : \E k \in 1..n : Fits(s, k)}
    IN  IF starts = {} THEN NULL
        ELSE LET s == CHOOSE s \in starts : \A t \in starts : s <= t
                 k == CHOOSE k \in 1..n : Fits(s, k) /\ \A j \in 1..n : Fits(s, j) => j <= k
             IN  [g1 |-> SubSeq(diffLine, s + 2, k - 1), g2 |-> SubSeq(diffLine, k + 1, n)]

createNewFileDiff(diffLine) ==
    LET match == DiffGitMatch(diffLine)
        oldPath == IF match # NULL THEN match.g1 ELSE <<>>
        newPath == IF match # NULL THEN match.g2 ELSE <<>>
    IN  [path |-> IF newPath # <<>> THEN newPath ELSE oldPath,
         oldPath |-> oldPath,
         newPath |-> newPath,
         status |-> "modified",
         hunks |-> <<>>,
         rawDiff |-> diffLine \o <<"\n">>,
         additions |-> 0,
         deletions |-> 0,
         binary |-> FALSE,
         index |-> NULL]

(***************************************************************************)
(* parseHunkHeader                                                         *)
(***************************************************************************)
Digits == {"0", "1", "2", "3", "4", "5"}
\* parseInt(token, 10)
ParseInt(t) == CASE t = "0" -> 0 [] t = "1" -> 1 [] t = "2" -> 2
                 [] t = "3" -> 3 [] t = "4" -> 4 [] t = "5" -> 5

\* hunkLine.match(/@@ -(\d+)(?:,(\d+))? \+(\d+)(?:,(\d+))? @@(.*)/) tried at
\* position s; a group that took no part (undefined in the source, falsy as
\* the empty string is) is "".
HunkMatchAt(hunkLine, s) ==
    LET n == Len(hunkLine)
        At(k) == IF k <= n THEN hunkLine[k] ELSE ""
        hasOldCount == At(s + 3) = "," /\ At(s + 4) \in Digits
        p == IF hasOldCount THEN s + 5 ELSE s + 3
        hasNewCount == At(p + 2) = "," /\ At(p + 3) \in Digits
        q == IF hasNewCount THEN p + 4 ELSE p + 2
    IN  IF /\ At(s) = "@@" /\ At(s + 1) = " -" /\ At(s + 2) \in Digits
           /\ At(p) = " +" /\ At(p + 1) \in Digits
           /\ At(q) = " @@"
        THEN [g1 |-> At(s + 2),
              g2 |-> IF hasOldCount THEN At(s + 4) ELSE "",
              g3 |-> At(p + 1),
              g4 |-> IF hasNewCount THEN At(p + 3) ELSE "",
              g5 |-> SubSeq(hunkLine, q + 1, n)]
        ELSE NULL

HunkMatch(hunkLine) ==
    LET starts == {s \in 1..Len(hunkLine) : HunkMatchAt(hunkLine, s) # NULL}
    IN  IF starts = {} THEN NULL
        ELSE HunkMatchAt(hunkLine, CHOOSE s \in starts : \A t \in starts : s <= t)

\* (variant: the error names the line by its 1-based number)
InvalidHunkHeader_OneBased(hunkLine, lineNumber) ==
    [message |-> "Invalid hunk header", lineNumber |-> lineNumber + 1, hunkLine |-> hunkLine]

\* The error parseHunkHeader throws.
InvalidHunkHeader(hunkLine, lineNumber) ==
    [message |-> "Invalid hunk header", lineNumber |-> lineNumber, hunkLine |-> hunkLine]

\* (variant: the text after the closing '@@' is kept untrimmed)
parseHunkHeader_Untrimmed(hunkLine, lineNumber) ==
    LET match == HunkMatch(hunkLine)
    IN  [file |-> <<>>,
         oldStart |-> ParseInt(match.g1),
         oldCount |-> IF match.g2 # "" THEN ParseInt(match.g2) ELSE 1,
         newStart |-> ParseInt(match.g3),
         newCount |-> IF match.g4 # "" THEN ParseInt(match.g4) ELSE 1,
         lines |-> <<>>,
         content |-> hunkLine \o <<"\n">>,
         additions |-> 0,
         deletions |-> 0,
         context |-> match.g5,
         lineNumber |-> lineNumber]

\* parseHunkHeader on a line that matches.  The field lineNumber records the
\* argument of the call (the index of the header line); the source keeps it
\* only in the error message.
parseHunkHeader(hunkLine, lineNumber) ==
    LET match == HunkMatch(hunkLine)
    IN  [file |-> <<>>,
         oldStart |-> ParseInt(match.g1),
         oldCount |-> IF match.g2 # "" THEN ParseInt(match.g2) ELSE 1,
         newStart |-> ParseInt(match.g3),
         newCount |-> IF match.g4 # "" THEN ParseInt(match.g4) ELSE 1,
         lines |-> <<>>,
         content |-> hunkLine \o <<"\n">>,
         additions |-> 0,
         deletions |-> 0,
         context |-> IF match.g5 # <<>> THEN Trim(match.g5) ELSE <<>>,
         lineNumber |-> lineNumber]

(***************************************************************************)
(* parseDiff, one action per step of the function: the guard, the split,   *)
(* each branch of the loop body, and the code after the loop.              *)
(***************************************************************************)
DiffGitPrefix == <<"diff --git">>
IndexPrefix == <<"index ">>
BinaryPrefix == <<"Binary files">>
NewModePrefix == <<"new file", " mode">>
DeletedModePrefix == <<"deleted file", " mode">>
RenameFromPrefix == <<"rename from">>
RenameToPrefix == <<"rename to">>
HunkPrefix == <<"@@">>

IsAddition(line) == StartsWith(line, <<"+">>) /\ ~StartsWith(line, <<"+", "+", "+">>)
IsDeletion(line) == StartsWith(line, <<"-">>) /\ ~StartsWith(line, <<"-", "-", "-">>)

InLoop == pc = "loop" /\ i < Len(lines)
Line == lines[i + 1]

\* if (!diffContent || typeof diffContent !== 'string') return [];
ParseGuardReturn ==
    /\ pc = "start"
    /\ (Falsy(diffContent) \/ ~IsString(diffContent))
    /\ result' = <<>>
    /\ pc' = "done"
    /\ UNCHANGED <<diffContent, lines, i, fileDiffs, currentFile, currentHunk, inHunk, error>>
    /\ UNCHANGED <<matchVars, filterVars, utilVars>>

\* const lines = diffContent.split('\n'); fileDiffs = []; ...; i = 0
ParseSplit ==
    /\ pc = "start"
    /\ ~(Falsy(diffContent) \/ ~IsString(diffContent))
    /\ lines' = diffContent.lines
    /\ fileDiffs' = <<>>
    /\ currentFile' = NULL
    /\ currentHunk' = NULL
    /\ inHunk' = FALSE
    /\ i' = 0
    /\ pc' = "loop"
    /\ UNCHANGED <<diffContent, result, error>>
    /\ UNCHANGED <<matchVars, filterVars, utilVars>>

\* (variant: the handler discards the hunk that is open)
ParseFileHeader_DropsOpenHunk ==
    /\ InLoop
    /\ StartsWith(Line, DiffGitPrefix)
    /\ fileDiffs' = IF currentFile # NULL THEN Append(fileDiffs, currentFile) ELSE fileDiffs
    /\ currentFile' = createNewFileDiff(Line)
    /\ currentHunk' = NULL
    /\ inHunk' = FALSE
    /\ i' = i + 1
    /\ UNCHANGED <<diffContent, lines, pc, result, error>>
    /\ UNCHANGED <<matchVars, filterVars, utilVars>>

\* if (line.startsWith('diff --git')) { ... continue; }
ParseFileHeader ==
    /\ InLoop
    /\ StartsWith(Line, DiffGitPrefix)
    /\ fileDiffs' = IF currentFile # NULL THEN Append(fileDiffs, currentFile) ELSE fileDiffs
    /\ currentFile' = createNewFileDiff(Line)
    /\ inHunk' = FALSE
    /\ i' = i + 1
    /\ UNCHANGED <<diffContent, lines, currentHunk, pc, result, error>>
    /\ UNCHANGED <<matchVars, filterVars, utilVars>>

\* if (line.startsWith('index ')) { ... continue; }
ParseIndexLine ==
    /\ InLoop
    /\ StartsWith(Line, IndexPrefix)
    /\ currentFile' = IF currentFile # NULL
                      THEN [currentFile EXCEPT !.index = Line] ELSE currentFile
    /\ i' = i + 1
    /\ UNCHANGED <<diffContent, lines, fileDiffs, currentHunk, inHunk, pc, result, error>>
    /\ UNCHANGED <<matchVars, filterVars, utilVars>>

\* (variant: the handler without its `if (currentFile)` test; setting a property
\* of null throws a TypeError)
ParseBinaryLine_NoFileTest ==
    /\ InLoop
    /\ StartsWith(Line, BinaryPrefix)
    /\ IF currentFile # NULL
       THEN /\ currentFile' = [currentFile EXCEPT !.binary = TRUE, !.status = "binary"]
            /\ i' = i + 1
            /\ UNCHANGED <<pc, error>>
       ELSE /\ pc' = "threw"
            /\ error' = [message |-> "TypeError", lineNumber |-> i, hunkLine |-> Line]
            /\ UNCHANGED <<currentFile, i>>
    /\ UNCHANGED <<diffContent, lines, fileDiffs, currentHunk, inHunk, result>>
    /\ UNCHANGED <<matchVars, filterVars, utilVars>>

\* if (line.startsWith('Binary files')) { ... continue; }
ParseBinaryLine ==
    /\ InLoop
    /\ StartsWith(Line, BinaryPrefix)
    /\ currentFile' = IF currentFile # NULL
                      THEN [currentFile EXCEPT !.binary = TRUE, !.status = "binary"]
                      ELSE currentFile
    /\ i' = i + 1
    /\ UNCHANGED <<diffContent, lines, fileDiffs, currentHunk, inHunk, pc, result, error>>
    /\ UNCHANGED <<matchVars, filterVars, utilVars>>

\* if (line.startsWith('new file mode') || line.startsWith('deleted file mode')) { ... }
ParseFileModeLine ==
    /\ InLoop
    /\ (StartsWith(Line, NewModePrefix) \/ StartsWith(Line, DeletedModePrefix))
    /\ currentFile' =
         IF currentFile # NULL
         THEN IF Includes(Line, <<"new file">>)
              THEN [currentFile EXCEPT !.status = "added"]
              ELSE IF Includes(Line, <<"deleted file">>)
                   THEN [currentFile EXCEPT !.status = "deleted"]
                   ELSE currentFile
         ELSE currentFile
    /\ i' = i + 1
    /\ UNCHANGED <<diffContent, lines, fileDiffs, currentHunk, inHunk, pc, result, error>>
    /\ UNCHANGED <<matchVars, filterVars, utilVars>>

\* if (line.startsWith('rename from') || line.startsWith('rename to')) { ... }
ParseRenameLine ==
    /\ InLoop
    /\ (StartsWith(Line, RenameFromPrefix) \/ StartsWith(Line, RenameToPrefix))
    /\ currentFile' =
         IF currentFile # NULL
         THEN IF StartsWith(Line, RenameFromPrefix)
              THEN [currentFile EXCEPT
                      !.status = "renamed",
                      !.oldPath = ReplaceFirst(Line, <<"rename from", " ">>, <<>>)]
              ELSE [currentFile EXCEPT
                      !.status = "renamed",
                      !.newPath = ReplaceFirst(Line, <<"rename to", " ">>, <<>>)]
         ELSE currentFile
    /\ i' = i + 1
    /\ UNCHANGED <<diffContent, lines, fileDiffs, currentHunk, inHunk, pc, result, error>>
    /\ UNCHANGED <<matchVars, filterVars, utilVars>>

\* if (line.startsWith('@@')) { if (currentFile) { push; parseHunkHeader } continue; }
\* parseHunkHeader throws on a line that does not match; the throw leaves parseDiff.
ParseHunkHeaderLine ==
    /\ InLoop
    /\ StartsWith(Line, HunkPrefix)
    /\ IF currentFile = NULL
       THEN /\ i' = i + 1
            /\ UNCHANGED <<currentFile, currentHunk, inHunk, pc, error>>
       ELSE IF HunkMatch(Line) = NULL
            THEN /\ currentFile' =
                      IF currentHunk # NULL
                      THEN [currentFile EXCEPT !.hunks = Append(@, currentHunk)]
                      ELSE currentFile
                 /\ error' = InvalidHunkHeader(Line, i)
                 /\ pc' = "threw"
                 /\ UNCHANGED <<i, currentHunk, inHunk>>
            ELSE /\ currentFile' =
                      IF currentHunk # NULL
                      THEN [currentFile EXCEPT !.hunks = Append(@, currentHunk)]
                      ELSE currentFile
                 /\ currentHunk' = parseHunkHeader(Line, i)
                 /\ inHunk' = TRUE
                 /\ i' = i + 1
                 /\ UNCHANGED <<pc, error>>
    /\ UNCHANGED <<diffContent, lines, fileDiffs, result>>
    /\ UNCHANGED <<matchVars, filterVars, utilVars>>

\* (variant: the branch does not test inHunk)
ParseContentLine_IgnoresInHunk ==
    /\ InLoop
    /\ ~StartsWith(Line, DiffGitPrefix)
    /\ ~StartsWith(Line, IndexPrefix)
    /\ ~StartsWith(Line, BinaryPrefix)
    /\ ~(StartsWith(Line, NewModePrefix) \/ StartsWith(Line, DeletedModePrefix))
    /\ ~(StartsWith(Line, RenameFromPrefix) \/ StartsWith(Line, RenameToPrefix))
    /\ ~StartsWith(Line, HunkPrefix)
    /\ IF currentHunk # NULL /\ currentFile # NULL
       THEN /\ currentHunk' =
                 [currentHunk EXCEPT
                    !.lines = Append(@, Line),
                    !.content = @ \o Line \o <<"\n">>,
                    !.additions = IF IsAddition(Line) THEN @ + 1 ELSE @,
                    !.deletions = IF ~IsAddition(Line) /\ IsDeletion(Line) THEN @ + 1 ELSE @]
            /\ currentFile' =
                 [currentFile EXCEPT
                    !.additions = IF IsAddition(Line) THEN @ + 1 ELSE @,
                    !.deletions = IF ~IsAddition(Line) /\ IsDeletion(Line) THEN @ + 1 ELSE @]
       ELSE UNCHANGED <<currentFile, currentHunk>>
    /\ i' = i + 1
    /\ UNCHANGED <<diffContent, lines, fileDiffs, inHunk, pc, result, error>>
    /\ UNCHANGED <<matchVars, filterVars, utilVars>>

\* Any other line: if (inHunk && currentHunk && currentFile) { append and count }
ParseContentLine ==
    /\ InLoop
    /\ ~StartsWith(Line, DiffGitPrefix)
    /\ ~StartsWith(Line, IndexPrefix)
    /\ ~StartsWith(Line, BinaryPrefix)
    /\ ~(StartsWith(Line, NewModePrefix) \/ StartsWith(Line, DeletedModePrefix))
    /\ ~(StartsWith(Line, RenameFromPrefix) \/ StartsWith(Line, RenameToPrefix))
    /\ ~StartsWith(Line, HunkPrefix)
    /\ IF inHunk /\ currentHunk # NULL /\ currentFile # NULL
       THEN /\ currentHunk' =
                 [currentHunk EXCEPT
                    !.lines = Append(@, Line),
                    !.content = @ \o Line \o <<"\n">>,
                    !.additions = IF IsAddition(Line) THEN @ + 1 ELSE @,
                    !.deletions = IF ~IsAddition(Line) /\ IsDeletion(Line) THEN @ + 1 ELSE @]
            /\ currentFile' =
                 [currentFile EXCEPT
                    !.additions = IF IsAddition(Line) THEN @ + 1 ELSE @,
                    !.deletions = IF ~IsAddition(Line) /\ IsDeletion(Line) THEN @ + 1 ELSE @]
       ELSE UNCHANGED <<currentFile, currentHunk>>
    /\ i' = i + 1
    /\ UNCHANGED <<diffContent, lines, fileDiffs, inHunk, pc, result, error>>
    /\ UNCHANGED <<matchVars, filterVars, utilVars>>

\* (variant: the file being built is not saved after the loop)
ParseFinish_DropsLastFile ==
    /\ pc = "loop"
    /\ i = Len(lines)
    /\ LET lastFile == IF currentHunk # NULL /\ currentFile # NULL
                       THEN [currentFile EXCEPT !.hunks = Append(@, currentHunk)]
                       ELSE currentFile
       IN  /\ currentFile' = lastFile
           /\ fileDiffs' = fileDiffs
           /\ result' = fileDiffs
    /\ pc' = "done"
    /\ UNCHANGED <<diffContent, lines, i, currentHunk, inHunk, error>>
    /\ UNCHANGED <<matchVars, filterVars, utilVars>>

\* After the loop: save the last hunk and file, return fileDiffs.
ParseFinish ==
    /\ pc = "loop"
    /\ i = Len(lines)
    /\ LET lastFile == IF currentHunk # NULL /\ currentFile # NULL
                       THEN [currentFile EXCEPT !.hunks = Append(@, currentHunk)]
                       ELSE currentFile
           out == IF currentFile # NULL THEN Append(fileDiffs, lastFile) ELSE fileDiffs
       IN  /\ currentFile' = lastFile
           /\ fileDiffs' = out
           /\ result' = out
    /\ pc' = "done"
    /\ UNCHANGED <<diffContent, lines, i, currentHunk, inHunk, error>>
    /\ UNCHANGED <<matchVars, filterVars, utilVars>>

MatchIdle ==
    filePath = <<>> /\ pattern = <<>> /\ matched = FALSE /\ mpc = "idle"
FilterIdle ==
    excludePatterns = NULL /\ inFiles = <<>> /\ filtered = <<>> /\ fpc = "idle"
LimitIdle == maxFiles = 0 /\ limited = <<>> /\ lpc = "idle"
ContextIdle ==
    heap = <<>> /\ ctxFile = NULL /\ contextLines = 0 /\ views = <<>> /\ cpc = "idle"
ChangedIdle == chHunk = NULL /\ changedLines = <<>> /\ chpc = "idle"
ValidateIdle == vContent = NULL /\ validation = NULL /\ vpc = "idle"
HeaderIdle == hdrLine = <<>> /\ hdrLineNumber = 0 /\ hdr = NULL /\ hpc = "idle"
StatsIdle == statFiles = <<>> /\ stats = NULL /\ spc = "idle"
ProcessIdle == config = NULL /\ processed = <<>> /\ perror = NULL /\ ppc = "idle"
ReviewIdle ==
    /\ options = NULL /\ promptChars = NULL /\ costEstimate = NULL
    /\ aiReviews = 0 /\ commentCalls = 0 /\ marked = ""
    /\ reviewResult = NULL /\ reviewError = NULL /\ rpc = "idle"
    /\ runResult = NULL /\ runError = NULL /\ runpc = "idle"
ParseIdle ==
    /\ diffContent = NULL /\ lines = <<>> /\ i = 0 /\ fileDiffs = <<>>
    /\ currentFile = NULL /\ currentHunk = NULL /\ inHunk = FALSE
    /\ pc = "idle" /\ result = <<>> /\ error = NULL

InitParse ==
    /\ diffContent \in DiffInputs
    /\ lines = <<>>
    /\ i = 0
    /\ fileDiffs = <<>>
    /\ currentFile = NULL
    /\ currentHunk = NULL
    /\ inHunk = FALSE
    /\ pc = "start"
    /\ result = <<>>
    /\ error = NULL
    /\ MatchIdle
    /\ FilterIdle
    /\ LimitIdle /\ ContextIdle /\ ChangedIdle /\ ValidateIdle /\ HeaderIdle /\ StatsIdle /\ ProcessIdle /\ ReviewIdle

NextParse ==
    \/ ParseGuardReturn
    \/ ParseSplit
    \/ ParseFileHeader
    \/ ParseIndexLine
    \/ ParseBinaryLine
    \/ ParseFileModeLine
    \/ ParseRenameLine
    \/ ParseHunkHeaderLine
    \/ ParseContentLine
    \/ ParseFinish

SpecParse == InitParse /\ [][NextParse]_vars

(***************************************************************************)
(* Reading the input text: where the files and the hunk headers are.       *)
(* Line indices are 0-based, as the loop index i is.                       *)
(***************************************************************************)
RECURSIVE SortedSeq(_)
SortedSeq(S) ==
    IF S = {} THEN <<>>
    ELSE LET m == CHOOSE m \in S : \A n \in S : m <= n
         IN  <<m>> \o SortedSeq(S \ {m})

\* the indices of the lines that start with 'diff --git', in text order
FileStarts(ls) ==
    SortedSeq({j \in 0..(Len(ls) - 1) : StartsWith(ls[j + 1], DiffGitPrefix)})

\* the indices of the '@@' lines between the k-th 'diff --git' line and the
\* next one (or the end of the text), in text order
HunkHeadersOfFile(ls, k) ==
    LET starts == FileStarts(ls)
        from == starts[k]
        to == IF k < Len(starts) THEN starts[k + 1] ELSE Len(ls)
    IN  SortedSeq({j \in (from + 1)..(to - 1) : StartsWith(ls[j + 1], HunkPrefix)})

\* the '@@' lines that come after the first 'diff --git' line and do not match
\* the hunk header expression
BadHeadersInFiles(ls) ==
    {j \in 0..(Len(ls) - 1) :
        /\ StartsWith(ls[j + 1], HunkPrefix)
        /\ HunkMatch(ls[j + 1]) = NULL
        /\ \E f \in 0..(j - 1) : StartsWith(ls[f + 1], DiffGitPrefix)}

\* the '@@' lines anywhere in the text that do not match
BadHeaders(ls) ==
    {j \in 0..(Len(ls) - 1) :
        StartsWith(ls[j + 1], HunkPrefix) /\ HunkMatch(ls[j + 1]) = NULL}

RECURSIVE CountLines(_, _)
\* the number of addition (kind = "+") or deletion (kind = "-") lines of ls
CountLines(ls, kind) ==
    IF ls = <<>> THEN 0
    ELSE (IF (kind = "+" /\ IsAddition(Head(ls)))
             \/ (kind = "-" /\ ~IsAddition(Head(ls)) /\ IsDeletion(Head(ls)))
          THEN 1 ELSE 0) + CountLines(Tail(ls), kind)

RECURSIVE CountInHunks(_, _)
CountInHunks(hunks, kind) ==
    IF hunks = <<>> THEN 0
    ELSE CountLines(Head(hunks).lines, kind) + CountInHunks(Tail(hunks), kind)

\* The new path a 'diff --git a/P b/Q' line names.  Where ' b/' occurs more than
\* once the line is read as git reads it, P = Q; otherwise at its only ' b/'.
GitNewPath(diffLine) ==
    LET n == Len(diffLine)
        SplitEven(k) == /\ 3 < k /\ k < n /\ diffLine[k] = " b/"
                   /\ SubSeq(diffLine, 3, k - 1) = SubSeq(diffLine, k + 1, n)
        SplitAny(k) == 3 < k /\ k < n /\ diffLine[k] = " b/"
    IN  IF \E k \in 1..n : SplitEven(k)
        THEN SubSeq(diffLine, 1 + CHOOSE k \in 1..n : SplitEven(k), n)
        ELSE IF \E k \in 1..n : SplitAny(k)
             THEN SubSeq(diffLine, 1 + CHOOSE k \in 1..n : SplitAny(k), n)
             ELSE <<>>

Returned == pc = "done"
Threw == pc = "threw"

(***************************************************************************)
(* C1: every FileDiff parseDiff returns has additions equal to the number  *)
(* of addition lines ('+', not '+++') over the hunks listed in it, and     *)
(* deletions equal to the number of deletion lines ('-', not '---').       *)
(***************************************************************************)
C1_CountConsistency ==
    Returned =>
        \A k \in DOMAIN result :
            /\ result[k].additions = CountInHunks(result[k].hunks, "+")
            /\ result[k].deletions = CountInHunks(result[k].hunks, "-")

(***************************************************************************)
(* C2: a 'diff --git' line closes the file being built with its last open  *)
(* hunk in it: the hunks of the k-th FileDiff are exactly the hunks opened *)
(* by the '@@' lines between the k-th 'diff --git' line and the next, in   *)
(* order, and a file with no such '@@' line has no hunks.                  *)
(***************************************************************************)
C2_HunksStayInTheirFile ==
    Returned =>
        \A k \in DOMAIN result :
            k <= Len(FileStarts(lines)) =>
                LET own == HunkHeadersOfFile(lines, k)
                IN  /\ Len(result[k].hunks) = Len(own)
                    /\ \A h \in DOMAIN result[k].hunks :
                           h <= Len(own) => result[k].hunks[h].lineNumber = own[h]

(***************************************************************************)
(* C3: parseDiff returns exactly one FileDiff per line that starts with    *)
(* 'diff --git', in the order of those lines, each with the b/ path of its *)
(* own line as path.                                                       *)
(***************************************************************************)
C3_OneFilePerHeader ==
    (Returned /\ IsString(diffContent)) =>
        /\ Len(result) = Len(FileStarts(lines))
        /\ \A k \in DOMAIN result :
               k <= Len(FileStarts(lines)) =>
                   result[k].path = GitNewPath(lines[FileStarts(lines)[k] + 1])

(***************************************************************************)
(* C4 as stated: whenever some line of the text begins with '@@' and does  *)
(* not have the hunk header shape, parseDiff throws the invalid hunk       *)
(* header error with the index of the offending line and returns nothing.  *)
(***************************************************************************)
C4_AnyBadHeaderThrows ==
    ((Returned \/ Threw) /\ IsString(diffContent) /\ ~Falsy(diffContent)
        /\ BadHeaders(diffContent.lines) # {}) =>
        /\ Threw
        /\ error.lineNumber \in BadHeaders(diffContent.lines)

(***************************************************************************)
(* C4 amended: whenever some line that begins with '@@' and comes after a  *)
(* 'diff --git' line does not match the hunk header shape, parseDiff       *)
(* throws the invalid hunk header error carrying the 0-based index and the *)
(* text of the first such line and returns nothing; it throws in no other  *)
(* case.                                                                   *)
(***************************************************************************)
C4_BadHeaderInFileThrows ==
    ((Returned \/ Threw) /\ IsString(diffContent) /\ ~Falsy(diffContent)) =>
        LET bad == BadHeadersInFiles(diffContent.lines)
        IN  /\ Threw <=> bad # {}
            /\ Threw =>
                 /\ error.message = "Invalid hunk header"
                 /\ error.lineNumber \in bad
                 /\ \A j \in bad : error.lineNumber <= j
                 /\ error.hunkLine = diffContent.lines[error.lineNumber + 1]
                 /\ result = <<>>

\* a bad header on the fourth line, after a file header and a good hunk: thrown
C4_Witness ==
    /\ Threw
    /\ error.lineNumber = 3
    /\ currentFile # NULL
    /\ Len(currentFile.hunks) = 1

(***************************************************************************)
(* C5: parseDiff never throws and returns the empty sequence for '', null, *)
(* undefined, a non-string, and a text with no line starting with          *)
(* 'diff --git' and none starting with '@@'.                               *)
(***************************************************************************)
NoMarkers(v) ==
    /\ IsString(v)
    /\ \A j \in DOMAIN v.lines :
           ~StartsWith(v.lines[j], DiffGitPrefix) /\ ~StartsWith(v.lines[j], HunkPrefix)

C5_EmptyForNonDiff ==
    (diffContent \in {NULL, UNDEFINED, EmptyString} \/ ~IsString(diffContent)
        \/ NoMarkers(diffContent)) =>
        /\ ~Threw
        /\ Returned => result = <<>>

\* a text of four lines, none of them a marker, among them a 'Binary files', a
\* 'new file mode' and a '+' line, parsed to the end
C5_Witness ==
    /\ Returned
    /\ NoMarkers(diffContent)
    /\ Len(lines) = 4
    /\ \E a, b, c \in DOMAIN lines :
           lines[a] = BinaryLine /\ lines[b] = AddLine /\ lines[c] = NewModeLine
    /\ result = <<>>

(***************************************************************************)
(* C6: every FileDiff parseDiff returns with binary = true has no hunks.   *)
(***************************************************************************)
C6_BinaryHasNoHunks ==
    Returned =>
        \A k \in DOMAIN result : result[k].binary => result[k].hunks = <<>>

(***************************************************************************)
(* matchesPattern.  Paths and patterns are sequences of characters.  The   *)
(* pattern is turned into the source of a regular expression by the two    *)
(* replace calls of the code, and RegExp.prototype.test is computed on     *)
(* that source: a search for a match starting anywhere in the path.        *)
(***************************************************************************)
Star == <<"*">>
StarStar == <<"*", "*">>
DotStar == <<".", "*">>
NotSlashStar == <<"[", "^", "/", "]", "*">>
Slash == <<"/">>

\* The elements of a regular expression source made of [^/]* groups, '.' and
\* literal characters (what the replace calls produce from a pattern whose
\* characters are letters, digits, '-', '_', '/', '.' and '*').
RECURSIVE RegexElems(_)
RegexElems(src) ==
    IF src = <<>> THEN <<>>
    ELSE IF StartsWith(src, NotSlashStar)
         THEN <<[kind |-> "notslash*", c |-> ""]>>
                  \o RegexElems(SubSeq(src, Len(NotSlashStar) + 1, Len(src)))
         ELSE IF Head(src) = "."
              THEN <<[kind |-> "any", c |-> ""]>> \o RegexElems(Tail(src))
              ELSE <<[kind |-> "lit", c |-> Head(src)]>> \o RegexElems(Tail(src))

\* the number of characters other than '/' that str has from position j on
RECURSIVE NotSlashRun(_, _)
NotSlashRun(str, j) ==
    IF j > Len(str) \/ str[j] = "/" THEN 0 ELSE 1 + NotSlashRun(str, j + 1)

\* the elements from the e-th on match str from position j on (the match may
\* end anywhere)
RECURSIVE RegexMatchFrom(_, _, _, _)
RegexMatchFrom(elems, e, str, j) ==
    IF e > Len(elems) THEN TRUE
    ELSE CASE elems[e].kind = "lit" ->
                j <= Len(str) /\ str[j] = elems[e].c /\ RegexMatchFrom(elems, e + 1, str, j + 1)
           [] elems[e].kind = "any" ->
                j <= Len(str) /\ RegexMatchFrom(elems, e + 1, str, j + 1)
           [] elems[e].kind = "notslash*" ->
                \E m \in 0..NotSlashRun(str, j) : RegexMatchFrom(elems, e + 1, str, j + m)

\* new RegExp(src).test(str)
RegExpTest(src, str) ==
    LET elems == RegexElems(src)
    IN  \E j \in 1..(Len(str) + 1) : RegexMatchFrom(elems, 1, str, j)

\* pattern.replace(/\*\*/g, '.*').replace(/\*/g, '[^/]*')
DoubleStarSource(pat) == ReplaceAll(ReplaceAll(pat, StarStar, DotStar), Star, NotSlashStar)
\* pattern.replace(/\*/g, '[^/]*')
SingleStarSource(pat) == ReplaceAll(pat, Star, NotSlashStar)

\* (variant: a literal pattern matches every path it is a prefix of)
matchesPattern_AnyPrefix(path, pat) ==
    IF Includes(pat, StarStar)
    THEN RegExpTest(DoubleStarSource(pat), path)
    ELSE IF Includes(pat, Star)
         THEN RegExpTest(SingleStarSource(pat), path)
         ELSE path = pat \/ StartsWith(path, pat)

matchesPattern(path, pat) ==
    IF Includes(pat, StarStar)
    THEN RegExpTest(DoubleStarSource(pat), path)
    ELSE IF Includes(pat, Star)
         THEN RegExpTest(SingleStarSource(pat), path)
         ELSE path = pat \/ StartsWith(path, pat \o Slash)

(***************************************************************************)
(* DEFAULT_CONFIG.exclude_patterns (agent/lib/config.js)                   *)
(***************************************************************************)
DEFAULT_exclude_patterns ==
    << <<"*", "*", "/", "*", ".", "e", "n", "v">>,
       <<"*", "*", "/", "*", ".", "e", "n", "v", ".", "*">>,
       <<"*", "*", "/", "s", "e", "c", "r", "e", "t", "s", "/", "*", "*">>,
       <<"*", "*", "/", "d", "i", "s", "t", "/", "*", "*">>,
       <<"*", "*", "/", "b", "u", "i", "l", "d", "/", "*", "*">>,
       <<"*", "*", "/", "n", "o", "d", "e", "_", "m", "o", "d", "u", "l", "e", "s", "/", "*", "*">>,
       <<"*", "*", "/", "*", ".", "m", "i", "n", ".", "j", "s">>,
       <<"*", "*", "/", "*", ".", "m", "i", "n", ".", "c", "s", "s">>,
       <<"*", "*", "/", "p", "a", "c", "k", "a", "g", "e", "-", "l", "o", "c", "k", ".", "j", "s", "o", "n">>,
       <<"*", "*", "/", "y", "a", "r", "n", ".", "l", "o", "c", "k">>,
       <<"*", "*", "/", ".", "g", "i", "t", "/", "*", "*">>,
       <<"*", "*", "/", "c", "o", "v", "e", "r", "a", "g", "e", "/", "*", "*">>,
       <<"*", "*", "/", "*", ".", "l", "o", "g">>,
       <<"*", "*", "/", "t", "m", "p", "/", "*", "*">>,
       <<"*", "*", "/", "t", "e", "m", "p", "/", "*", "*">> >>

(***************************************************************************)
(* The paths and patterns matchesPattern is called with: every sequence up *)
(* to the bounds over a small alphabet, and the paths and patterns of the  *)
(* repository's tests and documentation.                                   *)
(***************************************************************************)
PathChars == {"a", "b", "/", "."}
PatChars == {"a", "/", ".", "*"}

\* paths of the filterFiles tests, and the paths the documentation of the
\* patterns speaks of (a lock file at the root, nested directories)
P_src_app_js == <<"s", "r", "c", "/", "a", "p", "p", ".", "j", "s">>
P_dist_bundle_js == <<"d", "i", "s", "t", "/", "b", "u", "n", "d", "l", "e", ".", "j", "s">>
P_node_modules_pkg == <<"n", "o", "d", "e", "_", "m", "o", "d", "u", "l", "e", "s", "/", "p", "a", "c", "k", "a", "g", "e", "/", "i", "n", "d", "e", "x", ".", "j", "s">>
P_test_spec_js == <<"t", "e", "s", "t", "/", "s", "p", "e", "c", ".", "j", "s">>
P_package_lock == <<"p", "a", "c", "k", "a", "g", "e", "-", "l", "o", "c", "k", ".", "j", "s", "o", "n">>
P_src_a_b_foo_js == <<"s", "r", "c", "/", "a", "/", "b", "/", "f", "o", "o", ".", "j", "s">>
P_sub_node_modules == <<"s", "r", "c", "/", "n", "o", "d", "e", "_", "m", "o", "d", "u", "l", "e", "s", "/", "x", ".", "j", "s">>

G_dist == <<"d", "i", "s", "t", "/", "*", "*">>
G_node_modules == <<"n", "o", "d", "e", "_", "m", "o", "d", "u", "l", "e", "s", "/", "*", "*">>
G_src_foo == <<"s", "r", "c", "/", "*", "*", "/", "f", "o", "o", ".", "j", "s">>
G_star_js == <<"*", ".", "j", "s">>
G_src == <<"s", "r", "c">>

NamedPaths ==
    {P_src_app_js, P_dist_bundle_js, P_node_modules_pkg, P_test_spec_js,
     P_package_lock, P_src_a_b_foo_js, P_sub_node_modules}
NamedPatterns ==
    {G_dist, G_node_modules, G_src_foo, G_star_js, G_src}
        \cup {DEFAULT_exclude_patterns[k] : k \in DOMAIN DEFAULT_exclude_patterns}

MatchPaths(maxLen) == SeqsUpTo(PathChars, maxLen) \cup NamedPaths
MatchPatterns(maxLen) == SeqsUpTo(PatChars, maxLen) \cup NamedPatterns

\* matchesPattern(filePath, pattern), one action per return statement
MatchDoubleStar ==
    /\ mpc = "call"
    /\ Includes(pattern, StarStar)
    /\ matched' = matchesPattern(filePath, pattern)
    /\ mpc' = "done"
    /\ UNCHANGED <<filePath, pattern, parseVars, filterVars, utilVars>>

MatchSingleStar ==
    /\ mpc = "call"
    /\ ~Includes(pattern, StarStar)
    /\ Includes(pattern, Star)
    /\ matched' = matchesPattern(filePath, pattern)
    /\ mpc' = "done"
    /\ UNCHANGED <<filePath, pattern, parseVars, filterVars, utilVars>>

MatchLiteral ==
    /\ mpc = "call"
    /\ ~Includes(pattern, StarStar)
    /\ ~Includes(pattern, Star)
    /\ matched' = matchesPattern(filePath, pattern)
    /\ mpc' = "done"
    /\ UNCHANGED <<filePath, pattern, parseVars, filterVars, utilVars>>

InitMatch ==
    /\ filePath \in MatchPaths(MaxPathLen)
    /\ pattern \in MatchPatterns(MaxPatLen)
    /\ matched = FALSE
    /\ mpc = "call"
    /\ ParseIdle
    /\ FilterIdle
    /\ LimitIdle /\ ContextIdle /\ ChangedIdle /\ ValidateIdle /\ HeaderIdle /\ StatsIdle /\ ProcessIdle /\ ReviewIdle

NextMatch == MatchDoubleStar \/ MatchSingleStar \/ MatchLiteral

SpecMatch == InitMatch /\ [][NextMatch]_vars

(***************************************************************************)
(* The glob reading of a pattern the documentation states: '**' stands for *)
(* any sequence of characters, a remaining '*' for any sequence of         *)
(* characters other than '/', every other character for itself; the whole  *)
(* path is matched.                                                        *)
(***************************************************************************)
RECURSIVE GlobFrom(_, _, _)
GlobFrom(pat, path, j) ==
    IF pat = <<>> THEN j = Len(path) + 1
    ELSE IF StartsWith(pat, StarStar)
         THEN \E m \in 0..(Len(path) - j + 1) :
                  GlobFrom(SubSeq(pat, 3, Len(pat)), path, j + m)
         ELSE IF Head(pat) = "*"
              THEN \E m \in 0..(Len(path) - j + 1) :
                       /\ \A t \in j..(j + m - 1) : path[t] # "/"
                       /\ GlobFrom(Tail(pat), path, j + m)
              ELSE j <= Len(path) /\ path[j] = Head(pat) /\ GlobFrom(Tail(pat), path, j + 1)

GlobExpands(pat, path) == GlobFrom(pat, path, 1)

MatchDone == mpc = "done"

(***************************************************************************)
(* C8: a pattern containing '**' matches every path obtained from it by    *)
(* replacing each '**' with any sequence of characters ('/' included) and  *)
(* each remaining '*' with any sequence of characters other than '/'.      *)
(***************************************************************************)
C8_DoubleStarCrossesSeparators ==
    (MatchDone /\ Includes(pattern, StarStar) /\ GlobExpands(pattern, filePath)) => matched

(***************************************************************************)
(* C10: a pattern with '*' but no '**' matches a path only if the path is  *)
(* the pattern with each '*' replaced by a sequence of characters without  *)
(* '/'.                                                                    *)
(***************************************************************************)
C10_SingleStarStaysInSegment ==
    (MatchDone /\ Includes(pattern, Star) /\ ~Includes(pattern, StarStar) /\ matched)
        => GlobExpands(pattern, filePath)

(***************************************************************************)
(* filterFiles.  The pattern list argument is NULL, UNDEFINED (the         *)
(* argument left out: the default [] applies) or [list |-> patterns].      *)
(***************************************************************************)
\* (variant: a file is dropped only when every pattern matches it)
Excluded_Every(fileDiff, patterns) ==
    \A k \in DOMAIN patterns : matchesPattern(fileDiff.path, patterns[k])

\* excludePatterns.some(pattern => matchesPattern(fileDiff.path, pattern))
Excluded(fileDiff, patterns) ==
    \E k \in DOMAIN patterns : matchesPattern(fileDiff.path, patterns[k])

\* the list the body of filterFiles sees: the default parameter value [] for
\* undefined; null has no list
PatternList(arg) ==
    IF arg = UNDEFINED \/ arg = NULL THEN <<>> ELSE arg.list

\* (variant: an absent or empty pattern list yields an empty result)
filterFiles_NoneWithoutPatterns(files, arg) ==
    IF arg = NULL \/ Len(PatternList(arg)) = 0
    THEN <<>>
    ELSE LET keep(f) == ~Excluded(f, PatternList(arg))
         IN  SelectSeq(files, keep)

filterFiles(files, arg) ==
    IF arg = NULL \/ Len(PatternList(arg)) = 0
    THEN files
    ELSE LET keep(f) == ~Excluded(f, PatternList(arg))
         IN  SelectSeq(files, keep)

FileOf(path) == [path |-> path, hunks |-> <<>>]
G_any_package_lock == DEFAULT_exclude_patterns[9]

FilterPaths ==
    {P_src_app_js, P_dist_bundle_js, P_node_modules_pkg, P_package_lock}
FilterPatterns ==
    {G_dist, G_node_modules, G_star_js, G_any_package_lock}
FilterPatternArgs(maxPatterns) ==
    {NULL, UNDEFINED, [list |-> DEFAULT_exclude_patterns]}
        \cup {[list |-> ps] : ps \in SeqsUpTo(FilterPatterns, maxPatterns)}
FilterFileArgs(n) == SeqsUpTo({FileOf(p) : p \in FilterPaths}, n)

\* if (!excludePatterns || excludePatterns.length === 0) return fileDiffs;
FilterReturnInput ==
    /\ fpc = "call"
    /\ (excludePatterns = NULL \/ Len(PatternList(excludePatterns)) = 0)
    /\ filtered' = filterFiles(inFiles, excludePatterns)
    /\ fpc' = "done"
    /\ UNCHANGED <<inFiles, excludePatterns, parseVars, matchVars, utilVars>>

\* return fileDiffs.filter(...)
FilterApply ==
    /\ fpc = "call"
    /\ ~(excludePatterns = NULL \/ Len(PatternList(excludePatterns)) = 0)
    /\ filtered' = filterFiles(inFiles, excludePatterns)
    /\ fpc' = "done"
    /\ UNCHANGED <<inFiles, excludePatterns, parseVars, matchVars, utilVars>>

InitFilter ==
    /\ inFiles \in FilterFileArgs(MaxFiles)
    /\ excludePatterns \in FilterPatternArgs(MaxPatterns)
    /\ filtered = <<>>
    /\ fpc = "call"
    /\ ParseIdle
    /\ MatchIdle
    /\ LimitIdle /\ ContextIdle /\ ChangedIdle /\ ValidateIdle /\ HeaderIdle /\ StatsIdle /\ ProcessIdle /\ ReviewIdle

NextFilter == FilterReturnInput \/ FilterApply

SpecFilter == InitFilter /\ [][NextFilter]_vars

FilterDone == fpc = "done"

(***************************************************************************)
(* C7: filterFiles returns exactly the input files whose path no pattern   *)
(* matches: no returned file is matched by a pattern, every input file     *)
(* that is missing from the result is matched by one, and nothing else is  *)
(* returned.                                                               *)
(***************************************************************************)
C7_FilterExclusionLaw ==
    FilterDone =>
        LET pats == PatternList(excludePatterns)
            Hit(path) == \E k \in DOMAIN pats : matchesPattern(path, pats[k])
        IN  /\ \A k \in DOMAIN filtered : ~Hit(filtered[k].path)
            /\ \A k \in DOMAIN filtered : \E m \in DOMAIN inFiles : inFiles[m] = filtered[k]
            /\ \A m \in DOMAIN inFiles :
                   (\A k \in DOMAIN filtered : filtered[k] # inFiles[m]) => Hit(inFiles[m].path)
            /\ Len(filtered) = Cardinality({m \in DOMAIN inFiles : ~Hit(inFiles[m].path)})

\* two files and two patterns; the second file is matched by the second pattern
\* only and is dropped, the first is kept
C7_Witness ==
    /\ FilterDone
    /\ Len(inFiles) = 2
    /\ excludePatterns \notin {NULL, UNDEFINED}
    /\ Len(PatternList(excludePatterns)) = 2
    /\ filtered = <<inFiles[1]>>
    /\ ~matchesPattern(inFiles[2].path, PatternList(excludePatterns)[1])
    /\ matchesPattern(inFiles[2].path, PatternList(excludePatterns)[2])

(***************************************************************************)
(* C9: with the default exclude patterns filterFiles excludes the named    *)
(* directories and files at every depth, the repository root included: a   *)
(* pattern '**/D/**' excludes every path with a directory segment D, the   *)
(* first segment too, and '**/N' every path whose file name is N.          *)
(***************************************************************************)
RECURSIVE Segments(_)
\* path.split('/')
Segments(path) ==
    IF ~Includes(path, Slash) THEN <<path>>
    ELSE LET k == CHOOSE k \in DOMAIN path :
                      path[k] = "/" /\ \A j \in 1..(k - 1) : path[j] # "/"
         IN  <<SubSeq(path, 1, k - 1)>> \o Segments(SubSeq(path, k + 1, Len(path)))

IsName(s) == s # <<>> /\ ~Includes(s, Star) /\ ~Includes(s, Slash)

\* pat is '**/D/**' for a name D that is a directory segment of path
NamesDirectoryOf(pat, path) ==
    /\ Len(pat) > 6
    /\ StartsWith(pat, <<"*", "*", "/">>)
    /\ SubSeq(pat, Len(pat) - 2, Len(pat)) = <<"/", "*", "*">>
    /\ LET d == SubSeq(pat, 4, Len(pat) - 3)
           segs == Segments(path)
       IN  IsName(d) /\ \E k \in 1..(Len(segs) - 1) : segs[k] = d

\* pat is '**/N' for a name N that is the file name of path
NamesFileOf(pat, path) ==
    /\ Len(pat) > 3
    /\ StartsWith(pat, <<"*", "*", "/">>)
    /\ LET n == SubSeq(pat, 4, Len(pat))
           segs == Segments(path)
       IN  IsName(n) /\ segs[Len(segs)] = n

C9_DefaultsExcludeAtEveryDepth ==
    (FilterDone /\ excludePatterns = [list |-> DEFAULT_exclude_patterns]) =>
        \A m \in DOMAIN inFiles :
            (\E k \in DOMAIN DEFAULT_exclude_patterns :
                 \/ NamesDirectoryOf(DEFAULT_exclude_patterns[k], inFiles[m].path)
                 \/ NamesFileOf(DEFAULT_exclude_patterns[k], inFiles[m].path))
            => \A k \in DOMAIN filtered : filtered[k] # inFiles[m]

(***************************************************************************)
(* limitFiles.  The specification SpecLimit calls filterFiles and          *)
(* limitFiles, independently, on the same array of files.                  *)
(***************************************************************************)
\* Array.prototype.slice(start, end) on a sequence (indices 0-based, a
\* negative index counts from the end, both are clamped to the array).
Slice(arr, start, end) ==
    LET n == Len(arr)
        Rel(k) == IF k < 0 THEN (IF n + k < 0 THEN 0 ELSE n + k)
                  ELSE (IF k > n THEN n ELSE k)
    IN  SubSeq(arr, Rel(start) + 1, Rel(end))

\* (variant: the slice ends one element early)
limitFiles_OneShort(files, n) ==
    IF n = 0 \/ n <= 0 THEN files ELSE Slice(files, 0, n - 1)

\* limitFiles(fileDiffs, maxFiles) for a number maxFiles
limitFiles(files, n) ==
    IF n = 0 \/ n <= 0 THEN files ELSE Slice(files, 0, n)

\* if (!maxFiles || maxFiles <= 0) return fileDiffs;
LimitReturnInput ==
    /\ lpc = "call"
    /\ (maxFiles = 0 \/ maxFiles <= 0)
    /\ limited' = limitFiles(inFiles, maxFiles)
    /\ lpc' = "done"
    /\ UNCHANGED <<maxFiles, parseVars, matchVars, filterVars, processVars, reviewVars>>
    /\ UNCHANGED <<contextVars, changedVars, validateVars, headerVars, statsVars>>

\* return fileDiffs.slice(0, maxFiles);
LimitSlice ==
    /\ lpc = "call"
    /\ ~(maxFiles = 0 \/ maxFiles <= 0)
    /\ limited' = limitFiles(inFiles, maxFiles)
    /\ lpc' = "done"
    /\ UNCHANGED <<maxFiles, parseVars, matchVars, filterVars, processVars, reviewVars>>
    /\ UNCHANGED <<contextVars, changedVars, validateVars, headerVars, statsVars>>

\* The pattern lists of SpecLimit: null, unset, empty, one and two patterns.
LimitPatternArgs ==
    {NULL, UNDEFINED, [list |-> <<>>], [list |-> <<G_dist>>],
     [list |-> <<G_node_modules, G_dist>>]}

InitLimit ==
    /\ inFiles \in FilterFileArgs(MaxFiles)
    /\ excludePatterns \in LimitPatternArgs
    /\ filtered = <<>>
    /\ fpc = "call"
    /\ maxFiles \in (0 - 1)..MaxLimit
    /\ limited = <<>>
    /\ lpc = "call"
    /\ ParseIdle /\ MatchIdle
    /\ ContextIdle /\ ChangedIdle /\ ValidateIdle /\ HeaderIdle /\ StatsIdle /\ ProcessIdle /\ ReviewIdle

NextLimit == FilterReturnInput \/ FilterApply \/ LimitReturnInput \/ LimitSlice

SpecLimit == InitLimit /\ [][NextLimit]_vars

LimitDone == lpc = "done"

(***************************************************************************)
(* C11: limitFiles(files, n) returns, for n > 0, the prefix of files of    *)
(* length min(length(files), n), and for n <= 0 files itself.              *)
(***************************************************************************)
C11_LimitIsPrefix ==
    LimitDone =>
        IF maxFiles > 0
        THEN /\ Len(limited) = (IF Len(inFiles) < maxFiles THEN Len(inFiles) ELSE maxFiles)
             /\ \A k \in DOMAIN limited : limited[k] = inFiles[k]
        ELSE limited = inFiles

\* two files limited to one: the first file is returned
C11_Witness ==
    /\ LimitDone
    /\ maxFiles = 1
    /\ Len(inFiles) = 2
    /\ inFiles[1] # inFiles[2]
    /\ limited = <<inFiles[1]>>

(***************************************************************************)
(* C12: filterFiles and limitFiles each return a subsequence of their      *)
(* input (the kept files in their relative order, nothing added, nothing   *)
(* duplicated), and filterFiles returns its input unchanged when the       *)
(* pattern list is empty, null or unset.                                   *)
(***************************************************************************)
RECURSIVE IsSubsequence(_, _)
IsSubsequence(s, t) ==
    IF s = <<>> THEN TRUE
    ELSE IF t = <<>> THEN FALSE
    ELSE IF Head(s) = Head(t) THEN IsSubsequence(Tail(s), Tail(t))
    ELSE IsSubsequence(s, Tail(t))

NoPatterns(arg) == arg \in {NULL, UNDEFINED} \/ arg = [list |-> <<>>]

C12_SubsequenceOfInput ==
    /\ FilterDone => /\ IsSubsequence(filtered, inFiles)
                     /\ NoPatterns(excludePatterns) => filtered = inFiles
    /\ LimitDone => IsSubsequence(limited, inFiles)

\* of two different files the filter keeps the second only and the limit
\* the first only
C12_Witness ==
    /\ FilterDone /\ LimitDone
    /\ Len(inFiles) = 2
    /\ inFiles[1] # inFiles[2]
    /\ filtered = <<inFiles[2]>>
    /\ limited = <<inFiles[1]>>

(***************************************************************************)
(* extractHunksWithContext.  The lines array of a hunk is held by          *)
(* reference: a hunk's field lines is an address of the heap, so that a    *)
(* view sharing its array with the hunk differs from a view with a copy.   *)
(* After the call the caller may push onto the arrays of the views.        *)
(***************************************************************************)
CtxLine == <<" ", "a">>
PushedLine == <<"+", "pushed">>

MathMax(a, b) == IF a > b THEN a ELSE b
MathMin(a, b) == IF a < b THEN a ELSE b

\* Array.prototype.join('\n'), as a string
Join(ls) == StringOf(IF ls = <<>> THEN << <<>> >> ELSE ls)

\* the content parseDiff accumulates: the header and every line, each
\* followed by '\n'
HunkContent(header, body) == StringOf(<<header>> \o body \o << <<>> >>)

\* A hunk whose lines are the array at address a.
HunkAt(a, start, body) ==
    [oldStart |-> start, newStart |-> start + 1, lines |-> a,
     content |-> HunkContent(HunkLine, body)]

HunkBodies(n) == SeqsUpTo({AddLine, DelLine, CtxLine}, n)

\* The calls: no fileDiff, a fileDiff without hunks, one with an empty hunks
\* array, with one hunk, and with two hunks (the second of one or three lines).
\* Each is the pair of the fileDiff and the heap holding its arrays.
ContextCalls(n) ==
    {[file |-> NULL, heap |-> <<>>],
     [file |-> [path |-> <<"x">>], heap |-> <<>>],
     [file |-> [path |-> <<"x">>, hunks |-> <<>>], heap |-> <<>>]}
    \cup {[file |-> [path |-> <<"x">>, hunks |-> <<HunkAt(1, 1, b)>>], heap |-> <<b>>] :
              b \in HunkBodies(n)}
    \cup {[file |-> [path |-> <<"x">>, hunks |-> <<HunkAt(1, 1, b), HunkAt(2, 5, c)>>],
           heap |-> <<b, c>>] :
              b \in HunkBodies(n), c \in {<<AddLine>>, <<DelLine, AddLine, CtxLine>>}}

\* !fileDiff || !fileDiff.hunks
NoHunks(fileDiff) == fileDiff = NULL \/ "hunks" \notin DOMAIN fileDiff

\* if (!fileDiff || !fileDiff.hunks) return [];
ExtractReturnEmpty ==
    /\ cpc = "call"
    /\ NoHunks(ctxFile)
    /\ views' = <<>>
    /\ cpc' = "done"
    /\ UNCHANGED <<heap, ctxFile, contextLines>>
    /\ UNCHANGED <<parseVars, matchVars, filterVars, processVars, reviewVars>>
    /\ UNCHANGED <<limitVars, changedVars, validateVars, headerVars, statsVars>>

\* lines.slice(contextStart, contextEnd) of the source
ContextSlice(ls, budget) ==
    LET contextStart == MathMax(0, 0 - budget)
        contextEnd == MathMin(Len(ls), Len(ls) + budget)
    IN  Slice(ls, contextStart, contextEnd)

\* (variant: the view keeps the hunk's own lines array)
ExtractMap_SharedLines ==
    /\ cpc = "call"
    /\ ~NoHunks(ctxFile)
    /\ LET hunks == ctxFile.hunks
           sliced(k) == ContextSlice(heap[hunks[k].lines], contextLines)
       IN  /\ heap' = heap \o [k \in 1..Len(hunks) |-> sliced(k)]
           /\ views' = [k \in 1..Len(hunks) |->
                           [hunks[k] EXCEPT !.content = Join(sliced(k))]]
    /\ cpc' = "done"
    /\ UNCHANGED <<ctxFile, contextLines>>
    /\ UNCHANGED <<parseVars, matchVars, filterVars, processVars, reviewVars>>
    /\ UNCHANGED <<limitVars, changedVars, validateVars, headerVars, statsVars>>

\* return fileDiff.hunks.map(hunk => ({...hunk, lines: <slice>, content: <slice>.join('\n')}))
\* Each slice of lines is a new array.
ExtractMap ==
    /\ cpc = "call"
    /\ ~NoHunks(ctxFile)
    /\ LET hunks == ctxFile.hunks
           sliced(k) == ContextSlice(heap[hunks[k].lines], contextLines)
       IN  /\ heap' = heap \o [k \in 1..Len(hunks) |-> sliced(k)]
           /\ views' = [k \in 1..Len(hunks) |->
                           [hunks[k] EXCEPT !.lines = Len(heap) + k,
                                            !.content = Join(sliced(k))]]
    /\ cpc' = "done"
    /\ UNCHANGED <<ctxFile, contextLines>>
    /\ UNCHANGED <<parseVars, matchVars, filterVars, processVars, reviewVars>>
    /\ UNCHANGED <<limitVars, changedVars, validateVars, headerVars, statsVars>>

\* The caller, after the call: view.lines.push(line) on one of the views.
ViewPush ==
    /\ cpc \in {"done", "changed"}
    /\ \E k \in DOMAIN views :
           /\ Len(heap[views[k].lines]) <= MaxHunkLines
           /\ heap' = [heap EXCEPT ![views[k].lines] = Append(@, PushedLine)]
    /\ cpc' = "changed"
    /\ UNCHANGED <<ctxFile, contextLines, views>>
    /\ UNCHANGED <<parseVars, matchVars, filterVars, processVars, reviewVars>>
    /\ UNCHANGED <<limitVars, changedVars, validateVars, headerVars, statsVars>>

InitContext ==
    /\ \E c \in ContextCalls(MaxHunkLines) : ctxFile = c.file /\ heap = c.heap
    /\ contextLines \in 0..MaxBudget
    /\ views = <<>>
    /\ cpc = "call"
    /\ ParseIdle /\ MatchIdle /\ FilterIdle
    /\ LimitIdle /\ ChangedIdle /\ ValidateIdle /\ HeaderIdle /\ StatsIdle /\ ProcessIdle /\ ReviewIdle

NextContext == ExtractReturnEmpty \/ ExtractMap \/ ViewPush

SpecContext == InitContext /\ [][NextContext]_vars

\* the hunks of the fileDiff argument
HunksOf(fileDiff) == IF NoHunks(fileDiff) THEN <<>> ELSE fileDiff.hunks
\* the call has returned and the caller has not touched the views
ExtractDone == cpc = "done"

(***************************************************************************)
(* C13: for every FileDiff and every budget b >= 0, each hunk view         *)
(* returned by extractHunksWithContext(fileDiff, b) has at most 2 * b      *)
(* entries in its lines.                                                   *)
(***************************************************************************)
C13_ViewWithinBudget ==
    ExtractDone =>
        \A k \in DOMAIN views : Len(heap[views[k].lines]) <= 2 * contextLines

(***************************************************************************)
(* C20: extractHunksWithContext returns one view per hunk of the fileDiff, *)
(* in hunk order, and leaves the FileDiff and every original hunk          *)
(* unchanged: no step, neither the call nor a later push onto a view's     *)
(* lines, changes the fileDiff, a hunk's content or a hunk's lines.        *)
(***************************************************************************)
C20_OneViewPerHunk ==
    ExtractDone =>
        LET hunks == HunksOf(ctxFile)
        IN  /\ Len(views) = Len(hunks)
            /\ \A k \in DOMAIN views :
                   /\ views[k].oldStart = hunks[k].oldStart
                   /\ views[k].newStart = hunks[k].newStart
                   /\ \E a \in 0..Len(heap[hunks[k].lines]) :
                          HasAt(heap[hunks[k].lines], heap[views[k].lines], a + 1)

C20_OriginalKept ==
    /\ ctxFile' = ctxFile
    /\ \A k \in DOMAIN HunksOf(ctxFile) :
           heap'[ctxFile.hunks[k].lines] = heap[ctxFile.hunks[k].lines]

C20_ViewsLeaveOriginal == [](C20_OneViewPerHunk) /\ [][C20_OriginalKept]_vars

\* two hunks, two views, and a line pushed onto the first view only: the
\* view's lines now differ from the first hunk's
C20_Witness ==
    /\ cpc = "changed"
    /\ Len(HunksOf(ctxFile)) = 2
    /\ Len(views) = 2
    /\ heap[views[1].lines] = Append(heap[ctxFile.hunks[1].lines], PushedLine)
    /\ heap[views[2].lines] = heap[ctxFile.hunks[2].lines]

(***************************************************************************)
(* extractChangedLines.  Here the hunk's lines are given by value.         *)
(***************************************************************************)
MinusMinusMinusLine == <<"-", "-", "-", " a/x">>

RECURSIVE ChangedFrom(_, _)
\* hunk.lines.forEach((line, index) => ...) from index on
ChangedFrom(hunk, index) ==
    IF index >= Len(hunk.lines) THEN <<>>
    ELSE LET line == hunk.lines[index + 1]
             entry ==
                 IF IsAddition(line)
                 THEN <<[type |-> "addition", line |-> Tail(line),
                         lineNumber |-> hunk.newStart + index, hunkIndex |-> index]>>
                 ELSE IF IsDeletion(line)
                 THEN <<[type |-> "deletion", line |-> Tail(line),
                         lineNumber |-> hunk.oldStart + index, hunkIndex |-> index]>>
                 ELSE <<>>
         IN  entry \o ChangedFrom(hunk, index + 1)

extractChangedLines(hunk) == ChangedFrom(hunk, 0)

ChangedHunks(n) ==
    {[oldStart |-> o, newStart |-> s, lines |-> ls] :
        o \in {1, 4}, s \in {1, 6},
        ls \in SeqsUpTo({AddLine, DelLine, CtxLine, PlusPlusPlusLine, MinusMinusMinusLine}, n)}

ExtractChanged ==
    /\ chpc = "call"
    /\ changedLines' = extractChangedLines(chHunk)
    /\ chpc' = "done"
    /\ UNCHANGED chHunk
    /\ UNCHANGED <<parseVars, matchVars, filterVars, processVars, reviewVars>>
    /\ UNCHANGED <<limitVars, contextVars, validateVars, headerVars, statsVars>>

InitChanged ==
    /\ chHunk \in ChangedHunks(MaxHunkLines)
    /\ changedLines = <<>>
    /\ chpc = "call"
    /\ ParseIdle /\ MatchIdle /\ FilterIdle
    /\ LimitIdle /\ ContextIdle /\ ValidateIdle /\ HeaderIdle /\ StatsIdle /\ ProcessIdle /\ ReviewIdle

NextChanged == ExtractChanged

SpecChanged == InitChanged /\ [][NextChanged]_vars

ChangedDone == chpc = "done"

(***************************************************************************)
(* C14: each entry returned by extractChangedLines(hunk) carries the line  *)
(* number of its line in the relevant file version: an addition newStart   *)
(* plus the number of context and addition lines before it in the hunk, a  *)
(* deletion oldStart plus the number of context and deletion lines before  *)
(* it.  (A line is an addition or a deletion by its leading marker.)       *)
(***************************************************************************)
C14_ResolvedLineNumbers ==
    ChangedDone =>
        \A k \in DOMAIN changedLines :
            LET e == changedLines[k]
                before == SubSeq(chHunk.lines, 1, e.hunkIndex)
                OnNewSide(l) == ~StartsWith(l, <<"-">>)
                OnOldSide(l) == ~StartsWith(l, <<"+">>)
            IN  /\ e.type = "addition" =>
                       e.lineNumber = chHunk.newStart + Len(SelectSeq(before, OnNewSide))
                /\ e.type = "deletion" =>
                       e.lineNumber = chHunk.oldStart + Len(SelectSeq(before, OnOldSide))

(***************************************************************************)
(* validateDiff                                                            *)
(***************************************************************************)
BlankLine == <<" ">>
IndentedDiffLine == <<" ", "diff --git", " a/", "x", " b/", "x">>
IndentedHunkLine == <<" ", "@@", " -", "1", " +", "1", " @@">>

\* The lines of the texts given to validateDiff: a file header, a hunk header,
\* a malformed '@@' line, an addition, an empty and a blank line, and a file
\* header and a hunk header that do not start their lines.
ValidateLines ==
    {DiffX, HunkLine, BadHunkLine, AddLine, <<>>, BlankLine, IndentedDiffLine,
     IndentedHunkLine}

ValidateInputs(n) ==
    {NULL, UNDEFINED, [type |-> "number", value |-> 0], [type |-> "number", value |-> 42]}
    \cup {StringOf(ls) : ls \in SeqsUpTo(ValidateLines, n) \ {<<>>}}

RECURSIVE TextOf(_)
\* the tokens of a text, the lines separated by line terminators
TextOf(ls) ==
    IF Len(ls) = 1 THEN ls[1] ELSE ls[1] \o <<"\n">> \o TextOf(Tail(ls))

Message(text) == [type |-> "string", text |-> text]
Invalid(text) == [valid |-> FALSE, error |-> Message(text)]
Valid == [valid |-> TRUE, error |-> NULL]
\* calling trim on a value that is no string
TypeError == [threw |-> "TypeError"]

\* (variant: the guard does not test the type)
NotNonEmptyString_FalsyOnly(v) == Falsy(v)

\* !diffContent || typeof diffContent !== 'string'
NotNonEmptyString(v) == Falsy(v) \/ ~IsString(v)

\* diffContent.trim().length === 0
TrimmedEmpty(v) == Len(Trim(TextOf(v.lines))) = 0

\* lines.some(line => line.startsWith(prefix))
SomeLineStartsWith(ls, prefix) == \E k \in DOMAIN ls : StartsWith(ls[k], prefix)

validateDiff(v) ==
    IF NotNonEmptyString(v)
    THEN Invalid("Diff content must be a non-empty string")
    ELSE IF ~IsString(v) THEN TypeError
    ELSE IF TrimmedEmpty(v) THEN Invalid("Diff content is empty")
    ELSE IF ~SomeLineStartsWith(v.lines, DiffGitPrefix)
    THEN Invalid("Diff does not contain file headers (diff --git)")
    ELSE IF ~SomeLineStartsWith(v.lines, HunkPrefix)
    THEN Invalid("Diff does not contain hunk headers (@@)")
    ELSE Valid

ValidateReturn ==
    /\ validation' = validateDiff(vContent)
    /\ vpc' = IF validateDiff(vContent) = TypeError THEN "threw" ELSE "done"
    /\ UNCHANGED vContent
    /\ UNCHANGED <<parseVars, matchVars, filterVars, processVars, reviewVars>>
    /\ UNCHANGED <<limitVars, contextVars, changedVars, headerVars, statsVars>>

\* if (!diffContent || typeof diffContent !== 'string') return {...}
ValidateNoString ==
    /\ vpc = "call"
    /\ NotNonEmptyString(vContent)
    /\ ValidateReturn

\* if (diffContent.trim().length === 0) return {...}
ValidateEmpty ==
    /\ vpc = "call"
    /\ ~NotNonEmptyString(vContent)
    /\ (~IsString(vContent) \/ TrimmedEmpty(vContent))
    /\ ValidateReturn

\* if (!hasFileHeader) return {...}
ValidateNoFileHeader ==
    /\ vpc = "call"
    /\ ~NotNonEmptyString(vContent) /\ IsString(vContent) /\ ~TrimmedEmpty(vContent)
    /\ ~SomeLineStartsWith(vContent.lines, DiffGitPrefix)
    /\ ValidateReturn

\* if (!hasHunkHeader) return {...}
ValidateNoHunkHeader ==
    /\ vpc = "call"
    /\ ~NotNonEmptyString(vContent) /\ IsString(vContent) /\ ~TrimmedEmpty(vContent)
    /\ SomeLineStartsWith(vContent.lines, DiffGitPrefix)
    /\ ~SomeLineStartsWith(vContent.lines, HunkPrefix)
    /\ ValidateReturn

\* return { valid: true, error: null };
ValidateOk ==
    /\ vpc = "call"
    /\ ~NotNonEmptyString(vContent) /\ IsString(vContent) /\ ~TrimmedEmpty(vContent)
    /\ SomeLineStartsWith(vContent.lines, DiffGitPrefix)
    /\ SomeLineStartsWith(vContent.lines, HunkPrefix)
    /\ ValidateReturn

InitValidate ==
    /\ vContent \in ValidateInputs(MaxLines)
    /\ validation = NULL
    /\ vpc = "call"
    /\ ParseIdle /\ MatchIdle /\ FilterIdle
    /\ LimitIdle /\ ContextIdle /\ ChangedIdle /\ HeaderIdle /\ StatsIdle /\ ProcessIdle /\ ReviewIdle

NextValidate ==
    \/ ValidateNoString
    \/ ValidateEmpty
    \/ ValidateNoFileHeader
    \/ ValidateNoHunkHeader
    \/ ValidateOk

SpecValidate == InitValidate /\ [][NextValidate]_vars

(***************************************************************************)
(* C15: validateDiff never throws, and it returns {valid: true, error:     *)
(* null} exactly when its input is a string that is not empty and not      *)
(* white space only and that has a line starting with 'diff --git' and a   *)
(* line starting with '@@'; otherwise valid is false and error names the   *)
(* first requirement that fails, in the order non-empty string, file       *)
(* header, hunk header.                                                    *)
(***************************************************************************)
C15_ValidateVerdict ==
    /\ vpc # "threw"
    /\ vpc = "done" =>
        LET isText == /\ IsString(vContent)
                      /\ \E k \in DOMAIN vContent.lines :
                             \E j \in DOMAIN vContent.lines[k] :
                                 vContent.lines[k][j] \notin Whitespace
            hasFile == \E k \in DOMAIN vContent.lines :
                           vContent.lines[k] # <<>> /\ vContent.lines[k][1] = "diff --git"
            hasHunk == \E k \in DOMAIN vContent.lines :
                           vContent.lines[k] # <<>> /\ vContent.lines[k][1] = "@@"
        IN  IF ~isText
            THEN /\ validation.valid = FALSE
                 /\ validation.error \in {Message("Diff content must be a non-empty string"),
                                          Message("Diff content is empty")}
            ELSE IF ~hasFile
            THEN validation = Invalid("Diff does not contain file headers (diff --git)")
            ELSE IF ~hasHunk
            THEN validation = Invalid("Diff does not contain hunk headers (@@)")
            ELSE validation = Valid

\* a text of two lines, neither a file header nor a hunk header although
\* both hold the markers: the file headers are reported missing
C15_Witness ==
    /\ vpc = "done"
    /\ vContent = StringOf(<<IndentedDiffLine, IndentedHunkLine>>)
    /\ validation = Invalid("Diff does not contain file headers (diff --git)")

(***************************************************************************)
(* parseHunkHeader on its own: SpecHeader calls it with every header line  *)
(* '@@ -a[,b] +c[,d] @@[text]' over a few numbers and texts, and with      *)
(* lines that are no headers.                                              *)
(***************************************************************************)
HeaderNumbers == {0, 1, 3}
\* the decimal numeral of a number
Numeral(n) == CASE n = 0 -> "0" [] n = 1 -> "1" [] n = 2 -> "2"
                [] n = 3 -> "3" [] n = 4 -> "4" [] n = 5 -> "5"

\* a count is given (<<n>>) or omitted (<<>>)
HeaderCounts == {<<>>} \cup {<<n>> : n \in HeaderNumbers}
CountText(count) == IF count = <<>> THEN <<>> ELSE <<",", Numeral(count[1])>>

\* the texts after the closing '@@', each with what it is once trimmed
HeaderTexts ==
    {[raw |-> <<>>, trimmed |-> <<>>],
     [raw |-> <<" ">>, trimmed |-> <<>>],
     [raw |-> <<" ", "ctx">>, trimmed |-> <<"ctx">>],
     [raw |-> <<" ", "ctx", " ">>, trimmed |-> <<"ctx">>],
     [raw |-> <<"ctx">>, trimmed |-> <<"ctx">>],
     [raw |-> <<" ", "fn", " ", "ctx", "\t">>, trimmed |-> <<"fn", " ", "ctx">>]}

HeaderLineOf(oldStart, oldCount, newStart, newCount, text) ==
    <<"@@", " -", Numeral(oldStart)>> \o CountText(oldCount)
        \o <<" +", Numeral(newStart)>> \o CountText(newCount) \o <<" @@">> \o text

HeaderLines ==
    {HeaderLineOf(a, b, c, d, t.raw) :
        a \in HeaderNumbers, b \in HeaderCounts, c \in HeaderNumbers, d \in HeaderCounts,
        t \in HeaderTexts}
    \cup {BadHunkLine, <<"@@", " -", "1", ",", " +", "1", " @@">>}

\* return { file: '', oldStart, ... } after a match
HeaderReturn ==
    /\ hpc = "call"
    /\ HunkMatch(hdrLine) # NULL
    /\ hdr' = parseHunkHeader(hdrLine, hdrLineNumber)
    /\ hpc' = "done"
    /\ UNCHANGED <<hdrLine, hdrLineNumber>>
    /\ UNCHANGED <<parseVars, matchVars, filterVars, processVars, reviewVars>>
    /\ UNCHANGED <<limitVars, contextVars, changedVars, validateVars, statsVars>>

\* if (!match) throw new Error(...)
HeaderThrow ==
    /\ hpc = "call"
    /\ HunkMatch(hdrLine) = NULL
    /\ hdr' = InvalidHunkHeader(hdrLine, hdrLineNumber)
    /\ hpc' = "threw"
    /\ UNCHANGED <<hdrLine, hdrLineNumber>>
    /\ UNCHANGED <<parseVars, matchVars, filterVars, processVars, reviewVars>>
    /\ UNCHANGED <<limitVars, contextVars, changedVars, validateVars, statsVars>>

InitHeader ==
    /\ hdrLine \in HeaderLines
    /\ hdrLineNumber \in {0, 3}
    /\ hdr = NULL
    /\ hpc = "call"
    /\ ParseIdle /\ MatchIdle /\ FilterIdle
    /\ LimitIdle /\ ContextIdle /\ ChangedIdle /\ ValidateIdle /\ StatsIdle /\ ProcessIdle /\ ReviewIdle

NextHeader == HeaderReturn \/ HeaderThrow

SpecHeader == InitHeader /\ [][NextHeader]_vars

(***************************************************************************)
(* C16: for every well-formed hunk header line the hunk has oldStart and   *)
(* newStart equal to the header's start numbers, oldCount and newCount     *)
(* equal to the header's counts, or 1 where ',count' is omitted, and       *)
(* context equal to the text after the closing '@@', trimmed: the empty    *)
(* string (here <<>>) when there is none.                                  *)
(***************************************************************************)
C16_HeaderFields ==
    hpc # "call" =>
        \A a \in HeaderNumbers, b \in HeaderCounts, c \in HeaderNumbers, d \in HeaderCounts,
           t \in HeaderTexts :
            hdrLine = HeaderLineOf(a, b, c, d, t.raw) =>
                /\ hpc = "done"
                /\ hdr.oldStart = a
                /\ hdr.oldCount = (IF b = <<>> THEN 1 ELSE b[1])
                /\ hdr.newStart = c
                /\ hdr.newCount = (IF d = <<>> THEN 1 ELSE d[1])
                /\ hdr.context = t.trimmed

\* '@@ -3 +1,0 @@ fn ctx<tab>': the old count is omitted, the new count is 0,
\* the text is trimmed at both ends
C16_Witness ==
    /\ hpc = "done"
    /\ hdrLine = <<"@@", " -", "3", " +", "1", ",", "0", " @@", " ", "fn", " ", "ctx", "\t">>
    /\ hdr.oldStart = 3 /\ hdr.oldCount = 1
    /\ hdr.newStart = 1 /\ hdr.newCount = 0
    /\ hdr.context = <<"fn", " ", "ctx">>

(***************************************************************************)
(* getDiffStats.  The object filesByStatus is a function whose domain is   *)
(* the set of its keys.                                                    *)
(***************************************************************************)
Statuses == {"modified", "added", "deleted", "renamed", "binary"}

StatFile(status, additions, deletions, hunkCount, binary) ==
    [path |-> <<"x">>, status |-> status, additions |-> additions,
     deletions |-> deletions, hunks |-> [k \in 1..hunkCount |-> [lines |-> <<>>]],
     binary |-> binary]

\* The files given to getDiffStats: the three of the test, one more of a
\* status already there, a deleted and a renamed file, and a binary file whose
\* status a later mode line has set to 'added'.
StatFiles ==
    {StatFile("modified", 5, 2, 2, FALSE),
     StatFile("added", 10, 0, 1, FALSE),
     StatFile("binary", 0, 0, 0, TRUE),
     StatFile("modified", 1, 1, 1, FALSE),
     StatFile("deleted", 0, 4, 1, FALSE),
     StatFile("renamed", 0, 0, 0, FALSE),
     StatFile("added", 0, 0, 0, TRUE)}

\* (variant: every status starts with a count of zero)
InitialStats_ZeroCounts(files) ==
    [totalFiles |-> Len(files), totalAdditions |-> 0, totalDeletions |-> 0,
     totalHunks |-> 0, filesByStatus |-> [s \in Statuses |-> 0], binaryFiles |-> 0]

\* const stats = { totalFiles: fileDiffs.length, ..., filesByStatus: {}, binaryFiles: 0 }
InitialStats(files) ==
    [totalFiles |-> Len(files), totalAdditions |-> 0, totalDeletions |-> 0,
     totalHunks |-> 0, filesByStatus |-> [s \in {} |-> 0], binaryFiles |-> 0]

\* (variant: a file counts as one hunk)
StatsStep_OneHunkPerFile(st, fileDiff) ==
    [st EXCEPT
        !.totalAdditions = @ + fileDiff.additions,
        !.totalDeletions = @ + fileDiff.deletions,
        !.totalHunks = @ + 1,
        !.binaryFiles = IF fileDiff.binary THEN @ + 1 ELSE @,
        !.filesByStatus =
            (fileDiff.status :>
                ((IF fileDiff.status \in DOMAIN @ THEN @[fileDiff.status] ELSE 0) + 1)) @@ @]

\* the body of fileDiffs.forEach
StatsStep(st, fileDiff) ==
    [st EXCEPT
        !.totalAdditions = @ + fileDiff.additions,
        !.totalDeletions = @ + fileDiff.deletions,
        !.totalHunks = @ + Len(fileDiff.hunks),
        !.binaryFiles = IF fileDiff.binary THEN @ + 1 ELSE @,
        !.filesByStatus =
            (fileDiff.status :>
                ((IF fileDiff.status \in DOMAIN @ THEN @[fileDiff.status] ELSE 0) + 1)) @@ @]

RECURSIVE StatsForEach(_, _)
StatsForEach(st, files) ==
    IF files = <<>> THEN st ELSE StatsForEach(StatsStep(st, Head(files)), Tail(files))

getDiffStats(files) == StatsForEach(InitialStats(files), files)

GetDiffStats ==
    /\ spc = "call"
    /\ stats' = getDiffStats(statFiles)
    /\ spc' = "done"
    /\ UNCHANGED statFiles
    /\ UNCHANGED <<parseVars, matchVars, filterVars, processVars, reviewVars>>
    /\ UNCHANGED <<limitVars, contextVars, changedVars, validateVars, headerVars>>

InitStats ==
    /\ statFiles \in SeqsUpTo(StatFiles, MaxStatFiles)
    /\ stats = NULL
    /\ spc = "call"
    /\ ParseIdle /\ MatchIdle /\ FilterIdle
    /\ LimitIdle /\ ContextIdle /\ ChangedIdle /\ ValidateIdle /\ HeaderIdle /\ ProcessIdle /\ ReviewIdle

NextStats == GetDiffStats

SpecStats == InitStats /\ [][NextStats]_vars

StatsDone == spc = "done"

RECURSIVE SeqSum(_)
SeqSum(s) == IF s = <<>> THEN 0 ELSE Head(s) + SeqSum(Tail(s))

(***************************************************************************)
(* C17: getDiffStats(files) returns totalFiles = the number of files,      *)
(* totalAdditions and totalDeletions = the sums of the files' additions    *)
(* and deletions, totalHunks = the sum of the lengths of their hunks,      *)
(* binaryFiles = the number of files whose binary is true; and the call    *)
(* leaves files and every FileDiff in it unchanged.                        *)
(***************************************************************************)
C17_Totals ==
    StatsDone =>
        /\ stats.totalFiles = Len(statFiles)
        /\ stats.totalAdditions = SeqSum([k \in DOMAIN statFiles |-> statFiles[k].additions])
        /\ stats.totalDeletions = SeqSum([k \in DOMAIN statFiles |-> statFiles[k].deletions])
        /\ stats.totalHunks = SeqSum([k \in DOMAIN statFiles |-> Len(statFiles[k].hunks)])
        /\ stats.binaryFiles = Cardinality({k \in DOMAIN statFiles : statFiles[k].binary})

C17_StatsTotals == [](C17_Totals) /\ [][statFiles' = statFiles]_vars

\* the three files of the test: 15 additions, 2 deletions, 3 hunks, 1 binary
C17_Witness ==
    /\ StatsDone
    /\ statFiles = <<StatFile("modified", 5, 2, 2, FALSE), StatFile("added", 10, 0, 1, FALSE),
                     StatFile("binary", 0, 0, 0, TRUE)>>
    /\ stats.totalFiles = 3 /\ stats.totalAdditions = 15 /\ stats.totalDeletions = 2
    /\ stats.totalHunks = 3 /\ stats.binaryFiles = 1

(***************************************************************************)
(* C18: filesByStatus has a key for a status exactly when at least one     *)
(* file has that status, the value is the number of files with it, no key  *)
(* maps to zero, and the values sum to totalFiles.                         *)
(***************************************************************************)
RECURSIVE SumOfValues(_, _)
SumOfValues(f, keys) ==
    IF keys = {} THEN 0
    ELSE LET k == CHOOSE k \in keys : TRUE IN f[k] + SumOfValues(f, keys \ {k})

C18_FilesByStatus ==
    StatsDone =>
        LET counts == stats.filesByStatus
            With(s) == {k \in DOMAIN statFiles : statFiles[k].status = s}
        IN  /\ \A s \in Statuses \cup DOMAIN counts : s \in DOMAIN counts <=> With(s) # {}
            /\ \A s \in DOMAIN counts : counts[s] = Cardinality(With(s)) /\ counts[s] # 0
            /\ SumOfValues(counts, DOMAIN counts) = stats.totalFiles

\* two modified files and a binary one: two keys, 'modified' at 2
C18_Witness ==
    /\ StatsDone
    /\ Len(statFiles) = 3
    /\ DOMAIN stats.filesByStatus = {"modified", "binary"}
    /\ stats.filesByStatus["modified"] = 2
    /\ stats.filesByStatus["binary"] = 1

(***************************************************************************)
(* parseDiff on hunk bodies: SpecHunkBody gives parseDiff the texts made   *)
(* of a file header, the hunk header '@@ -1 +1 @@', additions, deletions,  *)
(* context lines and empty lines (a text that ends with a line terminator  *)
(* has an empty last line).  No line of these texts starts as the index,   *)
(* binary, mode or rename lines do, so those four branches of the loop     *)
(* are never taken and are left out of the next-state relation.            *)
(***************************************************************************)
HunkLine11 == <<"@@", " -", "1", " +", "1", " @@">>
EmptyLine == <<>>

BodyTexts(n) ==
    {StringOf(ls) :
        ls \in SeqsUpTo({DiffX, HunkLine11, AddLine, DelLine, CtxLine, EmptyLine}, n) \ {<<>>}}

InitHunkBody ==
    /\ diffContent \in BodyTexts(MaxBodyLines)
    /\ lines = <<>>
    /\ i = 0
    /\ fileDiffs = <<>>
    /\ currentFile = NULL
    /\ currentHunk = NULL
    /\ inHunk = FALSE
    /\ pc = "start"
    /\ result = <<>>
    /\ error = NULL
    /\ MatchIdle
    /\ FilterIdle
    /\ LimitIdle /\ ContextIdle /\ ChangedIdle /\ ValidateIdle /\ HeaderIdle /\ StatsIdle /\ ProcessIdle /\ ReviewIdle

NextHunkBody ==
    \/ ParseGuardReturn
    \/ ParseSplit
    \/ ParseFileHeader
    \/ ParseHunkHeaderLine
    \/ ParseContentLine
    \/ ParseFinish

SpecHunkBody == InitHunkBody /\ [][NextHunkBody]_vars

(***************************************************************************)
(* C19: in every hunk parseDiff returns, each line is an addition, a       *)
(* deletion or a context line, and with the context lines counted on both  *)
(* sides the deletion and context lines are oldCount many and the          *)
(* addition and context lines newCount many.                               *)
(***************************************************************************)
C19_CountsMatchBody ==
    Returned =>
        \A f \in DOMAIN result : \A h \in DOMAIN result[f].hunks :
            LET hunk == result[f].hunks[h]
                IsAdd(l) == StartsWith(l, <<"+">>)
                IsDel(l) == StartsWith(l, <<"-">>)
                IsCtx(l) == StartsWith(l, <<" ">>)
                OnOldSide(l) == IsDel(l) \/ IsCtx(l)
                OnNewSide(l) == IsAdd(l) \/ IsCtx(l)
            IN  /\ \A k \in DOMAIN hunk.lines :
                       IsAdd(hunk.lines[k]) \/ IsDel(hunk.lines[k]) \/ IsCtx(hunk.lines[k])
                /\ Len(SelectSeq(hunk.lines, OnOldSide)) = hunk.oldCount
                /\ Len(SelectSeq(hunk.lines, OnNewSide)) = hunk.newCount

(***************************************************************************)
(* C21: a pattern without '*' matches a path exactly when the path equals  *)
(* the pattern or starts with the pattern followed by '/'; a path that     *)
(* holds the pattern elsewhere, or starts with it without the separator,   *)
(* is not matched.                                                         *)
(***************************************************************************)
C21_LiteralPattern ==
    (MatchDone /\ ~Includes(pattern, Star)) =>
        LET n == Len(pattern)
            nested == /\ Len(filePath) > n
                      /\ \A k \in 1..n : filePath[k] = pattern[k]
                      /\ filePath[n + 1] = "/"
        IN  matched <=> (filePath = pattern \/ nested)

\* 'src' matches 'src/app.js'
C21_Witness ==
    /\ MatchDone
    /\ pattern = G_src
    /\ filePath = P_src_app_js
    /\ matched

(***************************************************************************)
(* C23: once a '@@' header has opened a hunk, every following line up to   *)
(* the next line starting with '@@' or 'diff --git', or up to the end of   *)
(* the input, is appended unmodified and in order to the hunk's lines, and *)
(* with a terminating newline to its content, whatever the line's text.    *)
(***************************************************************************)
\* the index of the first line after index j that starts a hunk or a file,
\* or the number of lines when there is none
BodyEnd(ls, j) ==
    LET stops == {m \in (j + 1)..(Len(ls) - 1) :
                     StartsWith(ls[m + 1], HunkPrefix) \/ StartsWith(ls[m + 1], DiffGitPrefix)}
    IN  IF stops = {} THEN Len(ls) ELSE CHOOSE m \in stops : \A n \in stops : m <= n

RECURSIVE Terminated(_)
\* the lines, each followed by a newline, as one text
Terminated(ls) ==
    IF ls = <<>> THEN <<>> ELSE Head(ls) \o <<"\n">> \o Terminated(Tail(ls))

C23_BodyAppendedVerbatim ==
    Returned =>
        \A f \in DOMAIN result : \A h \in DOMAIN result[f].hunks :
            LET hunk == result[f].hunks[h]
                body == SubSeq(lines, hunk.lineNumber + 2, BodyEnd(lines, hunk.lineNumber))
            IN  /\ hunk.lines = body
                /\ hunk.content = Terminated(<<lines[hunk.lineNumber + 1]>> \o body)

(***************************************************************************)
(* C28: in every FileDiff parseDiff returns the binary flag is true        *)
(* exactly when the status is 'binary', in whatever order the 'Binary      *)
(* files', mode and rename lines of the file appear.                       *)
(***************************************************************************)
C28_BinaryIffStatusBinary ==
    Returned =>
        \A f \in DOMAIN result : result[f].binary <=> result[f].status = "binary"

(***************************************************************************)
(* C29: parseDiff neither loses nor duplicates a hunk: when it returns,    *)
(* the hunks of all returned FileDiffs are as many as the '@@' lines after *)
(* the first 'diff --git' line, and each such line is the header of        *)
(* exactly one hunk, found at exactly one place of the output.             *)
(***************************************************************************)
\* the indices of the '@@' lines after the first 'diff --git' line
HeadersInFiles(ls) ==
    {j \in 0..(Len(ls) - 1) :
        /\ StartsWith(ls[j + 1], HunkPrefix)
        /\ \E f \in 0..(j - 1) : StartsWith(ls[f + 1], DiffGitPrefix)}

\* the places <<file, hunk>> of the output
HunkPlaces(files) ==
    UNION {{<<f, h>> : h \in DOMAIN files[f].hunks} : f \in DOMAIN files}

C29_NoHunkLostOrDuplicated ==
    Returned =>
        /\ Cardinality(HunkPlaces(result)) = Cardinality(HeadersInFiles(lines))
        /\ \A j \in HeadersInFiles(lines) :
               Cardinality({p \in HunkPlaces(result) :
                               /\ result[p[1]].hunks[p[2]].lineNumber = j
                               /\ StartsWith(result[p[1]].hunks[p[2]].content, lines[j + 1])}) = 1

\* two files with a hunk each: two hunks are returned (both in the second
\* file)
C29_Witness ==
    /\ Returned
    /\ Len(result) = 2
    /\ Cardinality(HeadersInFiles(lines)) = 2
    /\ Len(result[1].hunks) + Len(result[2].hunks) = 2
    /\ StartsWith(lines[2], HunkPrefix)

(***************************************************************************)
(* parseDiff on file headers: SpecFileHeader gives parseDiff the texts     *)
(* made of a file header line, the index, binary, mode ('new file mode'    *)
(* and 'deleted file mode') and rename lines, a hunk header and an         *)
(* addition.                                                               *)
(***************************************************************************)
DeletedModeLine == <<"deleted file", " mode", " 100644">>

HeaderTextInputs(n) ==
    {NULL} \cup
    {StringOf(ls) :
        ls \in SeqsUpTo({DiffX, IndexLine, BinaryLine, NewModeLine, DeletedModeLine,
                         RenameToLine, HunkLine11, AddLine}, n) \ {<<>>}}

InitFileHeader ==
    /\ diffContent \in HeaderTextInputs(MaxHeaderLines)
    /\ lines = <<>>
    /\ i = 0
    /\ fileDiffs = <<>>
    /\ currentFile = NULL
    /\ currentHunk = NULL
    /\ inHunk = FALSE
    /\ pc = "start"
    /\ result = <<>>
    /\ error = NULL
    /\ MatchIdle
    /\ FilterIdle
    /\ LimitIdle /\ ContextIdle /\ ChangedIdle /\ ValidateIdle /\ HeaderIdle /\ StatsIdle /\ ProcessIdle /\ ReviewIdle

SpecFileHeader == InitFileHeader /\ [][NextParse]_vars

(***************************************************************************)
(* C25: for a file whose header (the lines between its 'diff --git' line   *)
(* and its first '@@' line) has no 'Binary files' and no rename line, the  *)
(* returned FileDiff has status 'added' if the header has a 'new file      *)
(* mode' line, 'deleted' if it has a 'deleted file mode' line, 'modified'  *)
(* if it has neither; and an 'index ' line changes neither the status nor  *)
(* the hunks nor the counters of a file.                                   *)
(***************************************************************************)
\* the lines of the header of the k-th file of the text
FileHeaderLines(ls, k) ==
    LET from == FileStarts(ls)[k]
    IN  SubSeq(ls, from + 2, BodyEnd(ls, from))

HeaderHas(ls, k, prefix) ==
    \E m \in DOMAIN FileHeaderLines(ls, k) : StartsWith(FileHeaderLines(ls, k)[m], prefix)

C25_StatusOfHeader ==
    Returned =>
        \A k \in DOMAIN result :
            (/\ ~HeaderHas(lines, k, BinaryPrefix)
             /\ ~HeaderHas(lines, k, RenameFromPrefix)
             /\ ~HeaderHas(lines, k, RenameToPrefix))
            => LET new == HeaderHas(lines, k, NewModePrefix)
                   deleted == HeaderHas(lines, k, DeletedModePrefix)
               IN  /\ (new /\ ~deleted) => result[k].status = "added"
                   /\ (deleted /\ ~new) => result[k].status = "deleted"
                   /\ (~new /\ ~deleted) => result[k].status = "modified"

C25_IndexLineKeepsFile ==
    (InLoop /\ StartsWith(Line, IndexPrefix)) =>
        /\ fileDiffs' = fileDiffs
        /\ currentHunk' = currentHunk
        /\ currentFile # NULL =>
               /\ currentFile'.status = currentFile.status
               /\ currentFile'.hunks = currentFile.hunks
               /\ currentFile'.additions = currentFile.additions
               /\ currentFile'.deletions = currentFile.deletions

C25_StatusFromModeLines == [](C25_StatusOfHeader) /\ [][C25_IndexLineKeepsFile]_vars

(***************************************************************************)
(* parseDiff on file-summary lines: SpecSummary gives parseDiff the texts  *)
(* made of a file header line, a hunk header, an addition and the '+++'    *)
(* and '---' lines.  As in SpecHunkBody no line takes the index, binary,   *)
(* mode or rename branch.                                                  *)
(***************************************************************************)
SummaryTexts(n) ==
    {NULL} \cup
    {StringOf(ls) :
        ls \in SeqsUpTo({DiffX, HunkLine11, AddLine, PlusPlusPlusLine,
                         MinusMinusMinusLine}, n) \ {<<>>}}

InitSummary ==
    /\ diffContent \in SummaryTexts(MaxSummaryLines)
    /\ lines = <<>>
    /\ i = 0
    /\ fileDiffs = <<>>
    /\ currentFile = NULL
    /\ currentHunk = NULL
    /\ inHunk = FALSE
    /\ pc = "start"
    /\ result = <<>>
    /\ error = NULL
    /\ MatchIdle
    /\ FilterIdle
    /\ LimitIdle /\ ContextIdle /\ ChangedIdle /\ ValidateIdle /\ HeaderIdle /\ StatsIdle /\ ProcessIdle /\ ReviewIdle

SpecSummary == InitSummary /\ [][NextHunkBody]_vars

(***************************************************************************)
(* C24: reading a '---' or '+++' line that lies between a 'diff --git'     *)
(* line and that file's first '@@' line changes no file and no hunk: no    *)
(* additions or deletions counter moves and the line is appended to no     *)
(* hunk's lines, also when a hunk of the previous file is still open.      *)
(***************************************************************************)
IsSummaryLine(l) == StartsWith(l, <<"+", "+", "+">>) \/ StartsWith(l, <<"-", "-", "-">>)

\* line j (0-based) lies after a 'diff --git' line with no '@@' line between
InFileHeader(ls, j) ==
    \E d \in 0..(j - 1) :
        /\ StartsWith(ls[d + 1], DiffGitPrefix)
        /\ \A m \in (d + 1)..(j - 1) : ~StartsWith(ls[m + 1], HunkPrefix)

C24_SummaryStep ==
    (InLoop /\ IsSummaryLine(Line) /\ InFileHeader(lines, i)) =>
        /\ fileDiffs' = fileDiffs
        /\ currentFile' = currentFile
        /\ currentHunk' = currentHunk

C24_SummaryLinesIgnored == [][C24_SummaryStep]_vars

\* the '+++' line of a second file has been read while the hunk of the first
\* file, with its one addition, is still open
C24_Witness ==
    /\ pc = "loop"
    /\ lines = <<DiffX, HunkLine11, AddLine, DiffX, PlusPlusPlusLine>>
    /\ i = 5
    /\ currentHunk # NULL
    /\ currentHunk.lines = <<AddLine>>
    /\ currentHunk.additions = 1
    /\ currentFile.additions = 0

(***************************************************************************)
(* validateDiff as a pre-check of parseDiff: SpecPrecheck calls both,      *)
(* independently, on the same text, made of a file header line, a hunk     *)
(* header, a malformed '@@' line, an addition and empty lines.             *)
(***************************************************************************)
PrecheckTexts(n) ==
    {NULL} \cup
    {StringOf(ls) :
        ls \in SeqsUpTo({DiffX, HunkLine11, BadHunkLine, AddLine, EmptyLine}, n) \ {<<>>}}

InitPrecheck ==
    /\ diffContent \in PrecheckTexts(MaxPrecheckLines)
    /\ vContent = diffContent
    /\ lines = <<>>
    /\ i = 0
    /\ fileDiffs = <<>>
    /\ currentFile = NULL
    /\ currentHunk = NULL
    /\ inHunk = FALSE
    /\ pc = "start"
    /\ result = <<>>
    /\ error = NULL
    /\ validation = NULL
    /\ vpc = "call"
    /\ MatchIdle
    /\ FilterIdle
    /\ LimitIdle /\ ContextIdle /\ ChangedIdle /\ HeaderIdle /\ StatsIdle /\ ProcessIdle /\ ReviewIdle

NextPrecheck == NextHunkBody \/ NextValidate

SpecPrecheck == InitPrecheck /\ [][NextPrecheck]_vars

\* validateDiff has accepted the text and parseDiff has returned
ValidAndParsed == vpc = "done" /\ validation = Valid /\ Returned

(***************************************************************************)
(* C30: for every text that validateDiff accepts and on which parseDiff    *)
(* returns, the result has at least one FileDiff and at least one hunk in  *)
(* total.                                                                  *)
(***************************************************************************)
C30_ValidHasFileAndHunk ==
    ValidAndParsed =>
        /\ Len(result) >= 1
        /\ Cardinality(HunkPlaces(result)) >= 1

(***************************************************************************)
(* C30 (amended): for every text that validateDiff accepts and on which    *)
(* parseDiff returns, the result has at least one FileDiff; it has a hunk  *)
(* exactly when a '@@' line comes after the first 'diff --git' line.       *)
(***************************************************************************)
C30_ValidHasFile ==
    ValidAndParsed =>
        /\ Len(result) >= 1
        /\ Cardinality(HunkPlaces(result)) >= 1 <=> HeadersInFiles(lines) # {}

\* '@@ -1 +1 @@' before 'diff --git a/x b/x': accepted, parsed to one file
\* without a hunk
C30_Witness ==
    /\ ValidAndParsed
    /\ lines = <<HunkLine11, DiffX>>
    /\ Len(result) = 1
    /\ result[1].hunks = <<>>

(***************************************************************************)
(* PRReviewer.processDiff (agent/reviewer.js): parseDiff, filterFiles with *)
(* config.exclude_patterns, limitFiles with config.max_files, getDiffStats *)
(* for the metrics, return the limited list.  parseDiff runs as the        *)
(* actions above; the rest of the function is one step.  Amounts of money  *)
(* are in millionths of a dollar.                                          *)
(***************************************************************************)
DEFAULT_cost_cap_usd == 500000

Config(patterns, maxf, cap) ==
    [exclude_patterns |-> [list |-> patterns], max_files |-> maxf, cost_cap_usd |-> cap]

\* (variant: the file limit is applied before the pattern filter)
processDiff_LimitFirst(files, cfg) ==
    LET limitedDiffs == limitFiles(files, cfg.max_files)
        filteredDiffs == filterFiles(limitedDiffs, cfg.exclude_patterns)
    IN  [filteredDiffs |-> limitedDiffs, limitedDiffs |-> filteredDiffs,
         stats |-> getDiffStats(filteredDiffs)]

\* the values processDiff computes from the parsed files
processDiff(files, cfg) ==
    LET filteredDiffs == filterFiles(files, cfg.exclude_patterns)
        limitedDiffs == limitFiles(filteredDiffs, cfg.max_files)
    IN  [filteredDiffs |-> filteredDiffs, limitedDiffs |-> limitedDiffs,
         stats |-> getDiffStats(limitedDiffs)]

\* parseDiff has returned: filter, limit, record the statistics, return limitedDiffs
ProcessDiffReturn ==
    /\ ppc = "parse"
    /\ pc = "done"
    /\ LET r == processDiff(result, config)
       IN  /\ filtered' = r.filteredDiffs
           /\ limited' = r.limitedDiffs
           /\ stats' = r.stats
           /\ processed' = r.limitedDiffs
    /\ ppc' = "done"
    /\ UNCHANGED <<config, perror, excludePatterns, inFiles, fpc, maxFiles, lpc, statFiles, spc>>
    /\ UNCHANGED <<parseVars, matchVars, contextVars, changedVars, validateVars, headerVars,
                   reviewVars>>

\* parseDiff has thrown: catch, throw new Error(`Failed to process diff: ...`)
ProcessDiffThrow ==
    /\ ppc = "parse"
    /\ pc = "threw"
    /\ perror' = [message |-> "Failed to process diff", cause |-> error]
    /\ ppc' = "threw"
    /\ UNCHANGED <<config, processed>>
    /\ UNCHANGED <<parseVars, matchVars, filterVars, limitVars, contextVars, changedVars,
                   validateVars, headerVars, statsVars, reviewVars>>

\* 'diff --git a/<path> b/<path>'
DiffOf(path) == <<"diff --git", " a/">> \o path \o <<" b/">> \o path

\* The texts of SpecProcess: '' and the texts of file header lines of a kept
\* and of an excluded path, hunk headers (one malformed) and additions.
ProcessTexts(n) ==
    {EmptyString} \cup
    {StringOf(ls) :
        ls \in SeqsUpTo({DiffOf(P_src_app_js), DiffOf(P_dist_bundle_js),
                         HunkLine11, BadHunkLine, AddLine}, n) \ {<<>>}}

\* The configurations of SpecProcess: no pattern, one, two; max_files from 1
\* (the schema's minimum).
ProcessConfigs(n) ==
    {Config(ps, m, DEFAULT_cost_cap_usd) :
        ps \in {<<>>, <<G_dist>>, <<G_any_package_lock, G_dist>>}, m \in 1..n}

InitProcess ==
    /\ diffContent \in ProcessTexts(MaxProcessLines)
    /\ config \in ProcessConfigs(MaxProcessLimit)
    /\ lines = <<>>
    /\ i = 0
    /\ fileDiffs = <<>>
    /\ currentFile = NULL
    /\ currentHunk = NULL
    /\ inHunk = FALSE
    /\ pc = "start"
    /\ result = <<>>
    /\ error = NULL
    /\ processed = <<>>
    /\ perror = NULL
    /\ ppc = "parse"
    /\ MatchIdle
    /\ FilterIdle
    /\ LimitIdle /\ ContextIdle /\ ChangedIdle /\ ValidateIdle /\ HeaderIdle /\ StatsIdle
    /\ ReviewIdle

NextProcess == NextHunkBody \/ ProcessDiffReturn \/ ProcessDiffThrow

SpecProcess == InitProcess /\ [][NextProcess]_vars

ProcessDone == ppc = "done"

\* the first n elements of s
FirstOf(s, n) == SubSeq(s, 1, IF n < Len(s) THEN n ELSE Len(s))

\* the files of the diff that no pattern of the configuration matches
NonExcluded(files, cfg) ==
    LET keep(f) == ~Excluded(f, cfg.exclude_patterns.list)
    IN  SelectSeq(files, keep)

(***************************************************************************)
(* C26: processDiff returns limitFiles(filterFiles(parseDiff(text),        *)
(* exclude_patterns), max_files): no returned file matches an exclude      *)
(* pattern, and the result is the first max_files non-excluded files of    *)
(* the diff.                                                               *)
(***************************************************************************)
C26_ParseFilterLimit ==
    ProcessDone =>
        /\ processed = limitFiles(filterFiles(result, config.exclude_patterns),
                                  config.max_files)
        /\ \A k \in DOMAIN processed : ~Excluded(processed[k], config.exclude_patterns.list)
        /\ processed = FirstOf(NonExcluded(result, config), config.max_files)

\* an excluded file comes first in the diff, max_files is 1, and the result is
\* the file after it
C26_Witness ==
    /\ ProcessDone
    /\ config.max_files = 1
    /\ Len(result) >= 2
    /\ Excluded(result[1], config.exclude_patterns.list)
    /\ processed = <<result[2]>>

(***************************************************************************)
(* The cost estimator (agent/lib/cost-estimator.js).  A prompt is modelled *)
(* by its length, the only thing the estimate reads; dollars are counted   *)
(* in millionths, so a price in dollars per million tokens is the price    *)
(* of one token.                                                           *)
(***************************************************************************)
CLAUDE_PRICING_input == 3
CLAUDE_PRICING_output == 15
CHARS_PER_TOKEN == 4
SYSTEM_OVERHEAD == 200
JSON_OVERHEAD == 100
MIN_OUTPUT_TOKENS == 50
MAX_OUTPUT_TOKENS == 2000
MIN_cost_cap_usd == 10000

\* Math.ceil(a / b) for positive b
CeilDiv(a, b) == (a + b - 1) \div b

\* estimateTokens(text) for a string of n characters (0 for '')
estimateTokens(n) ==
    IF n = 0 THEN 0
    ELSE LET baseTokens == CeilDiv(n, CHARS_PER_TOKEN)
             overhead == CeilDiv(baseTokens, 10)
         IN  baseTokens + overhead

estimateSystemTokens(n) == estimateTokens(n) + SYSTEM_OVERHEAD
estimateUserTokens(n) == estimateTokens(n) + JSON_OVERHEAD

\* Math.ceil(inputTokens * 0.15) within [MIN_OUTPUT_TOKENS, MAX_OUTPUT_TOKENS]
estimateOutputTokens(inputTokens) ==
    MathMax(MIN_OUTPUT_TOKENS, MathMin(CeilDiv(inputTokens * 15, 100), MAX_OUTPUT_TOKENS))

calculateCost(inputTokens, outputTokens) ==
    inputTokens * CLAUDE_PRICING_input + outputTokens * CLAUDE_PRICING_output

\* the object estimateApiCost returns (its breakdown left out)
estimateApiCost(systemChars, userChars) ==
    LET inputTokens == estimateSystemTokens(systemChars) + estimateUserTokens(userChars)
        outputTokens == estimateOutputTokens(inputTokens)
    IN  [inputTokens |-> inputTokens,
         outputTokens |-> outputTokens,
         totalTokens |-> inputTokens + outputTokens,
         costUsd |-> calculateCost(inputTokens, outputTokens)]

\* checkCostCap(costEstimate, costCapUsd).exceedsCap
checkCostCap(estimate, costCapUsd) == estimate.costUsd > costCapUsd

(***************************************************************************)
(* PRReviewer.run and PRReviewer.reviewPullRequest (agent/reviewer.js).    *)
(* The GitHub client, the Claude client, the prompt builders and the       *)
(* metrics collector are the environment: a call of one of them returns a  *)
(* value of a small set or throws.                                         *)
(***************************************************************************)
\* estimateReviewCost: { ...costEstimate, exceedsCap }
estimateReviewCost(chars, cfg) ==
    LET estimate == estimateApiCost(chars.system, chars.user)
    IN  [inputTokens |-> estimate.inputTokens,
         outputTokens |-> estimate.outputTokens,
         totalTokens |-> estimate.totalTokens,
         costUsd |-> estimate.costUsd,
         exceedsCap |-> checkCostCap(estimate, cfg.cost_cap_usd)]

\* obj.field is a number: obj.field.toFixed(4) does not throw
HasNumber(obj, field) == field \in DOMAIN obj

\* The pull request diffs of SpecReview.
ReviewTexts(n) ==
    {EmptyString} \cup
    {StringOf(ls) :
        ls \in SeqsUpTo({DiffOf(P_src_app_js), DiffOf(P_dist_bundle_js),
                         HunkLine11, BadHunkLine, AddLine}, n) \ {<<>>}}

\* The configurations loadConfig returns in SpecReview: the schema's least
\* cost cap and the default one.
ReviewConfigs ==
    {Config(ps, m, cap) :
        ps \in {<<>>, <<G_dist>>}, m \in 1..MaxProcessLimit,
        cap \in {MIN_cost_cap_usd, DEFAULT_cost_cap_usd}}

\* The lengths of the system and the user prompt: a review below the least
\* cap, and one between the least and the default cap.
PromptLengths == {[system |-> 400, user |-> 2000], [system |-> 400, user |-> 40000]}

\* this.options after the constructor; 0 and "" stand for null
ReviewOptions ==
    {[prNumber |-> n, repository |-> r] : n \in {0, 123}, r \in {"", "owner/repo"}}

\* run, up to the call of reviewPullRequest: initialize loads the
\* configuration; without a PR number or a repository (none in the environment
\* either) it throws
RunCall ==
    /\ runpc = "call"
    /\ \E cfg \in ReviewConfigs : config' = cfg
    /\ IF options.prNumber = 0 \/ options.repository = ""
       THEN /\ runError' = [message |-> "PR number and repository must be provided"]
            /\ runpc' = "threw"
            /\ rpc' = rpc
       ELSE /\ runError' = runError
            /\ runpc' = "review"
            /\ rpc' = "call"
    /\ UNCHANGED <<processed, perror, ppc, options, promptChars, costEstimate, aiReviews,
                   commentCalls, marked, reviewResult, reviewError, runResult>>
    /\ UNCHANGED <<parseVars, matchVars, filterVars, limitVars, contextVars, changedVars,
                   validateVars, headerVars, statsVars>>

\* reviewPullRequest, up to the call of processDiff: the arguments are
\* validated, the metrics are started, the PR information and the diff are
\* fetched; a failing fetch is caught, marked and rethrown
ReviewFetch ==
    /\ rpc = "call"
    /\ \/ /\ \E text \in ReviewTexts(MaxReviewLines) : diffContent' = text
          /\ pc' = "start"
          /\ ppc' = "parse"
          /\ rpc' = "process"
          /\ UNCHANGED <<marked, reviewError>>
       \/ /\ reviewError' = [message |-> "Failed to get PR diff"]
          /\ marked' = "error"
          /\ rpc' = "threw"
          /\ UNCHANGED <<diffContent, pc, ppc>>
    /\ UNCHANGED <<lines, i, fileDiffs, currentFile, currentHunk, inHunk, result, error>>
    /\ UNCHANGED <<config, processed, perror, options, promptChars, costEstimate, aiReviews,
                   commentCalls, reviewResult, runResult, runError, runpc>>
    /\ UNCHANGED <<matchVars, filterVars, limitVars, contextVars, changedVars,
                   validateVars, headerVars, statsVars>>

\* if (fileDiffs.length === 0) { markSuccess(); return { success: true, message } }
ReviewNoFiles ==
    /\ rpc = "process"
    /\ ppc = "done"
    /\ Len(processed) = 0
    /\ marked' = "success"
    /\ reviewResult' = [success |-> TRUE, message |-> "No files to review"]
    /\ rpc' = "done"
    /\ UNCHANGED <<options, promptChars, costEstimate, aiReviews, commentCalls,
                   reviewError, runResult, runError, runpc>>
    /\ UNCHANGED <<parseVars, matchVars, filterVars, limitVars, contextVars, changedVars,
                   validateVars, headerVars, statsVars, processVars>>

\* processDiff has thrown: catch, markError, rethrow
ReviewProcessFailed ==
    /\ rpc = "process"
    /\ ppc = "threw"
    /\ marked' = "error"
    /\ reviewError' = perror
    /\ rpc' = "threw"
    /\ UNCHANGED <<options, promptChars, costEstimate, aiReviews, commentCalls,
                   reviewResult, runResult, runError, runpc>>
    /\ UNCHANGED <<parseVars, matchVars, filterVars, limitVars, contextVars, changedVars,
                   validateVars, headerVars, statsVars, processVars>>

\* const costEstimate = await this.estimateReviewCost(fileDiffs, prInfo)
ReviewEstimate ==
    /\ rpc = "process"
    /\ ppc = "done"
    /\ Len(processed) > 0
    /\ \E chars \in PromptLengths :
          /\ promptChars' = chars
          /\ costEstimate' = estimateReviewCost(chars, config)
    /\ rpc' = "estimated"
    /\ UNCHANGED <<options, aiReviews, commentCalls, marked, reviewResult, reviewError,
                   runResult, runError, runpc>>
    /\ UNCHANGED <<parseVars, matchVars, filterVars, limitVars, contextVars, changedVars,
                   validateVars, headerVars, statsVars, processVars>>

\* reviewPullRequest after the estimate: the log line reads
\* costEstimate.estCostUsd.toFixed(4), a TypeError when the estimate has no
\* estCostUsd; then the cap test; then getAIReview, postComments, the final
\* metrics and the result.  A throw is caught, marked and rethrown.
ReviewAfterEstimate ==
    /\ rpc = "estimated"
    /\ IF ~HasNumber(costEstimate, "estCostUsd")
       THEN /\ reviewError' = TypeError
            /\ marked' = "error"
            /\ rpc' = "threw"
            /\ UNCHANGED <<aiReviews, commentCalls, reviewResult>>
       ELSE IF costEstimate.exceedsCap
            THEN /\ marked' = "truncated"
                 /\ reviewResult' = [success |-> FALSE, message |-> "Cost cap exceeded"]
                 /\ rpc' = "done"
                 /\ UNCHANGED <<aiReviews, commentCalls, reviewError>>
            ELSE \/ /\ aiReviews' = aiReviews + 1
                    /\ reviewError' = [message |-> "Failed to get AI review"]
                    /\ marked' = "error"
                    /\ rpc' = "threw"
                    /\ UNCHANGED <<commentCalls, reviewResult>>
                 \/ /\ aiReviews' = aiReviews + 1
                    /\ commentCalls' = commentCalls + 1
                    /\ \E issues \in 0..1, posted \in 0..2 :
                          reviewResult' = [success |-> TRUE,
                                           issuesFound |-> issues,
                                           commentsPosted |-> posted,
                                           costUsd |-> costEstimate.estCostUsd]
                    /\ marked' = "success"
                    /\ rpc' = "done"
                    /\ UNCHANGED reviewError
    /\ UNCHANGED <<options, promptChars, costEstimate, runResult, runError, runpc>>
    /\ UNCHANGED <<parseVars, matchVars, filterVars, limitVars, contextVars, changedVars,
                   validateVars, headerVars, statsVars, processVars>>

\* run after reviewPullRequest has returned: the log lines read
\* result.costUsd.toFixed(4), a TypeError when the result has no costUsd,
\* which run's catch rethrows; otherwise return result
RunReturn ==
    /\ runpc = "review"
    /\ rpc = "done"
    /\ IF HasNumber(reviewResult, "costUsd")
       THEN /\ runResult' = reviewResult
            /\ runpc' = "done"
            /\ UNCHANGED runError
       ELSE /\ runError' = TypeError
            /\ runpc' = "threw"
            /\ UNCHANGED runResult
    /\ UNCHANGED <<options, promptChars, costEstimate, aiReviews, commentCalls, marked,
                   reviewResult, reviewError, rpc>>
    /\ UNCHANGED <<parseVars, matchVars, filterVars, limitVars, contextVars, changedVars,
                   validateVars, headerVars, statsVars, processVars>>

\* run after reviewPullRequest has thrown: catch, log, throw error
RunCatch ==
    /\ runpc = "review"
    /\ rpc = "threw"
    /\ runError' = reviewError
    /\ runpc' = "threw"
    /\ UNCHANGED <<options, promptChars, costEstimate, aiReviews, commentCalls, marked,
                   reviewResult, reviewError, rpc, runResult>>
    /\ UNCHANGED <<parseVars, matchVars, filterVars, limitVars, contextVars, changedVars,
                   validateVars, headerVars, statsVars, processVars>>

\* new PRReviewer(options): config is null, nothing has run
InitReview ==
    /\ options \in ReviewOptions
    /\ promptChars = NULL /\ costEstimate = NULL
    /\ aiReviews = 0 /\ commentCalls = 0 /\ marked = ""
    /\ reviewResult = NULL /\ reviewError = NULL /\ rpc = "idle"
    /\ runResult = NULL /\ runError = NULL /\ runpc = "call"
    /\ ProcessIdle
    /\ ParseIdle /\ MatchIdle /\ FilterIdle
    /\ LimitIdle /\ ContextIdle /\ ChangedIdle /\ ValidateIdle /\ HeaderIdle /\ StatsIdle

NextReview ==
    \/ RunCall
    \/ ReviewFetch
    \/ NextHunkBody
    \/ ProcessDiffReturn
    \/ ProcessDiffThrow
    \/ ReviewNoFiles
    \/ ReviewProcessFailed
    \/ ReviewEstimate
    \/ ReviewAfterEstimate
    \/ RunReturn
    \/ RunCatch

SpecReview == InitReview /\ [][NextReview]_vars

\* reviewPullRequest / run has returned or thrown
ReviewEnded == rpc \in {"done", "threw"}
RunEnded == runpc \in {"done", "threw"} /\ rpc # "idle"
\* processDiff has returned no file
NoFilesRemain == ppc = "done" /\ Len(processed) = 0
FilesRemain == ppc = "done" /\ Len(processed) > 0

(***************************************************************************)
(* C22: when no file remains after processDiff, reviewPullRequest returns  *)
(* a result with success = true without a call of getAIReview or           *)
(* postComments, and run returns that result without throwing.             *)
(***************************************************************************)
C22_NoFilesRunSucceeds ==
    /\ (NoFilesRemain /\ ReviewEnded) =>
          /\ rpc = "done"
          /\ reviewResult.success
          /\ aiReviews = 0 /\ commentCalls = 0
    /\ (NoFilesRemain /\ RunEnded) =>
          /\ runpc = "done"
          /\ runResult = reviewResult

(***************************************************************************)
(* C27: once reviewPullRequest has ended with files remaining, getAIReview *)
(* was called exactly when the estimated cost is within cost_cap_usd; in   *)
(* that case postComments was called and the result has success = true,    *)
(* issuesFound, commentsPosted and costUsd; above the cap the function     *)
(* returned without throwing and without either call.                      *)
(***************************************************************************)
C27_ReviewedIffWithinCap ==
    (FilesRemain /\ ReviewEnded) =>
        LET within == costEstimate.costUsd <= config.cost_cap_usd
        IN  /\ aiReviews > 0 <=> within
            /\ within =>
                  /\ rpc = "done"
                  /\ commentCalls > 0
                  /\ reviewResult.success
                  /\ {"issuesFound", "commentsPosted", "costUsd"} \subseteq DOMAIN reviewResult
            /\ ~within => rpc = "done" /\ aiReviews = 0 /\ commentCalls = 0

====
